---------------------------- MODULE Spec2Model ----------------------------
(***************************************************************************)
(* Tone Slyder backend: the POST /api/rewrite request lifecycle, the      *)
(* in-memory response cache (CacheService) and the usage meter            *)
(* (MeteringService), as state machines.                                   *)
(*                                                                         *)
(* Time is Date.now() in milliseconds.  Money is counted in quarter       *)
(* micro-dollars (1 USD = 4,000,000 units) so that every per-token price  *)
(* of MODEL_PRICING is a whole number; the source uses IEEE doubles.      *)
(***************************************************************************)
EXTENDS Integers, Sequences, FiniteSets, TLC

VARIABLES
    now,            \* Date.now(), ms
    monthYear,      \* getCurrentMonthYear(), as a month number
    cache,          \* CacheService.cache : key -> [data, expiry]
    usageCache,     \* MeteringService.usageCache : <<userId, monthYear>> -> UserUsage
    lastCacheClean, \* MeteringService.lastCacheClean
    pc,             \* per handler: its position
    req,            \* per handler: the request (or the direct call's arguments)
    loc,            \* per handler: its local variables
    held,           \* per handler: the UserUsage object it holds a reference to
    resp,           \* per handler: what it answered
    hist,           \* per handler: history of the calls it made (observation only)
    usage0,         \* observation only: usageCache as it was initially
    shadow,         \* observation only: per key, the last set() not since deleted
    lastGet,        \* observation only: the last direct get() and what it returned
    tone,           \* a slider computation: its inputs and what the functions returned
    keyed           \* two requests, their cache keys, and a lookup of one after the other

vars == <<now, monthYear, cache, usageCache, lastCacheClean, pc, req, loc, held, resp, hist,
          usage0, shadow, lastGet, tone, keyed>>

obs == <<usage0, shadow, lastGet, tone, keyed>>

-----------------------------------------------------------------------------
(* Bounds of the model *)

NumReq == 2         \* concurrent handlers
MaxPeriods == 1      \* cache lifetimes the clock can run through
MaxMonth == 2        \* calendar months the clock can reach

Procs == 1..NumReq

-----------------------------------------------------------------------------
(* Values *)

Undefined == "undefined"    \* an omitted argument / absent value
Null == "null"

UnitsPerDollar == 4000 * 1000

DefaultModel == "gpt-3.5-turbo"

Tiers == {"free", "premium", "enterprise"}

(* meteringService.ts TIER_LIMITS *)
FreeMonthlyRewrites == 100
PremiumMonthlyRewrites == 1000
EnterpriseMonthlyRewrites == 10000
FreeBudgetUSD == 5
PremiumBudgetUSD == 50
EnterpriseBudgetUSD == 500

TIER_LIMITS(tier) ==
    CASE tier = "free" ->
           [monthlyRewrites |-> FreeMonthlyRewrites,
            monthlyBudgetUSD |-> FreeBudgetUSD * UnitsPerDollar,
            modelAccess |-> {"gpt-3.5-turbo"}]
      [] tier = "premium" ->
           [monthlyRewrites |-> PremiumMonthlyRewrites,
            monthlyBudgetUSD |-> PremiumBudgetUSD * UnitsPerDollar,
            modelAccess |-> {"gpt-3.5-turbo", "gpt-4", "claude-3-haiku", "claude-3-sonnet"}]
      [] tier = "enterprise" ->
           [monthlyRewrites |-> EnterpriseMonthlyRewrites,
            monthlyBudgetUSD |-> EnterpriseBudgetUSD * UnitsPerDollar,
            modelAccess |-> {"gpt-3.5-turbo", "gpt-4", "claude-3-haiku", "claude-3-sonnet",
                             "gpt-4-turbo"}]

(* meteringService.ts MODEL_PRICING, per token, in units; Undefined when the
   model has no entry *)
PricedModels == {"gpt-3.5-turbo", "gpt-4", "claude-3-haiku", "claude-3-sonnet"}

MODEL_PRICING(model) ==
    CASE model = "gpt-3.5-turbo"   -> [inputTokenCost |-> 6,   outputTokenCost |-> 8]
      [] model = "gpt-4"           -> [inputTokenCost |-> 120, outputTokenCost |-> 240]
      [] model = "claude-3-haiku"  -> [inputTokenCost |-> 1,   outputTokenCost |-> 5]
      [] model = "claude-3-sonnet" -> [inputTokenCost |-> 12,  outputTokenCost |-> 60]

(* Math.round(n * tenths / 10) for a non-negative integer n *)
RoundTenths(n, tenths) == (n * tenths + 5) \div 10

EstimatedTokens == 2000

estimateRequestCost(model, estimatedTokens) ==
    IF model \notin PricedModels THEN 0
    ELSE RoundTenths(estimatedTokens, 6) * MODEL_PRICING(model).inputTokenCost
         + RoundTenths(estimatedTokens, 4) * MODEL_PRICING(model).outputTokenCost

(* inputTokens / outputTokens: 0 stands for an omitted argument too
   (`inputTokens && outputTokens` is falsy for both) *)
calculateCost(model, totalTokens, inputTokens, outputTokens) ==
    IF model \notin PricedModels THEN 0
    ELSE IF inputTokens # 0 /\ outputTokens # 0
         THEN inputTokens * MODEL_PRICING(model).inputTokenCost
              + outputTokens * MODEL_PRICING(model).outputTokenCost
         ELSE RoundTenths(totalTokens, 6) * MODEL_PRICING(model).inputTokenCost
              + RoundTenths(totalTokens, 4) * MODEL_PRICING(model).outputTokenCost


-----------------------------------------------------------------------------
(* Maps (JavaScript Map): a function whose domain is the set of keys present *)

EmptyMap == [k \in {} |-> Null]
MapSet(m, key, v) == [k \in (DOMAIN m) \cup {key} |-> IF k = key THEN v ELSE m[k]]
MapDelete(m, key) == [k \in (DOMAIN m) \ {key} |-> m[k]]

-----------------------------------------------------------------------------
(* Texts: sequences of tokens.  " " is whitespace; "Update" and "update"
   differ only in case; "b.d" is a term with a full stop in it. *)

TokenOrder == <<" ", "Update", "b.d", "bad", "ok", "update">>   \* UTF-16 code unit order
Tokens == {TokenOrder[i] : i \in 1..Len(TokenOrder)}
Rank(tok) == CHOOSE i \in 1..Len(TokenOrder) : TokenOrder[i] = tok

ToLower(tok) == IF tok = "Update" THEN "update" ELSE tok
TextLower(text) == [i \in 1..Len(text) |-> ToLower(text[i])]

RECURSIVE TrimStart(_)
TrimStart(text) ==
    IF text # <<>> /\ Head(text) = " " THEN TrimStart(Tail(text)) ELSE text
RECURSIVE TrimEnd(_)
TrimEnd(text) ==
    IF text # <<>> /\ text[Len(text)] = " "
    THEN TrimEnd(SubSeq(text, 1, Len(text) - 1)) ELSE text
Trim(text) == TrimEnd(TrimStart(text))

(* Array.prototype.sort() on strings *)
RECURSIVE Insert(_, _)
Insert(x, sorted) ==
    IF sorted = <<>> THEN <<x>>
    ELSE IF Rank(x) < Rank(Head(sorted)) THEN <<x>> \o sorted
    ELSE <<Head(sorted)>> \o Insert(x, Tail(sorted))
RECURSIVE SortTerms(_)
SortTerms(terms) ==
    IF terms = <<>> THEN <<>>
    ELSE Insert(terms[Len(terms)], SortTerms(SubSeq(terms, 1, Len(terms) - 1)))

(* new RegExp(pattern) matching a token: the term is the pattern as it
   stands, so a full stop in it matches any character *)
RegExpMatches(pattern, tok) ==
    IF pattern = "b.d" THEN tok \in {"b.d", "bad"} ELSE tok = pattern

(* number of matches of the term in the text, both lower-cased *)
MatchCount(term, text) ==
    Cardinality({i \in 1..Len(text) : RegExpMatches(ToLower(term), ToLower(text[i]))})

RECURSIVE RequiredViolations(_, _, _)
RequiredViolations(required, originalText, rewrittenText) ==
    IF required = <<>> THEN <<>>
    ELSE (IF MatchCount(Head(required), originalText) > 0
             /\ MatchCount(Head(required), rewrittenText) = 0
          THEN <<[kind |-> "removed", term |-> Head(required)]>> ELSE <<>>)
         \o RequiredViolations(Tail(required), originalText, rewrittenText)

RECURSIVE BannedViolations(_, _)
BannedViolations(banned, rewrittenText) ==
    IF banned = <<>> THEN <<>>
    ELSE (IF MatchCount(Head(banned), rewrittenText) > 0
          THEN <<[kind |-> "present", term |-> Head(banned)]>> ELSE <<>>)
         \o BannedViolations(Tail(banned), rewrittenText)

validateGuardrails(originalText, rewrittenText, guardrails) ==
    RequiredViolations(guardrails.required, originalText, rewrittenText)
    \o BannedViolations(guardrails.banned, rewrittenText)

validateOutput(originalText, rewrittenText, guardrails) ==
    validateGuardrails(originalText, rewrittenText, guardrails)

(* dial ids in the order Array.prototype.sort() puts them *)
DimensionOrder ==
    <<"authoritativeness", "conversational", "formality", "humor", "informativeness">>
DimensionRank(d) == CHOOSE i \in 1..Len(DimensionOrder) : DimensionOrder[i] = d

(* Object.keys(sliderValues).sort().reduce(...): the entries, by dial id *)
RECURSIVE InsertSlider(_, _)
InsertSlider(e, sorted) ==
    IF sorted = <<>> THEN <<e>>
    ELSE IF DimensionRank(e.dimension) < DimensionRank(Head(sorted).dimension)
         THEN <<e>> \o sorted
    ELSE <<Head(sorted)>> \o InsertSlider(e, Tail(sorted))
RECURSIVE SortSliders(_)
SortSliders(sliderValues) ==
    IF sliderValues = <<>> THEN <<>>
    ELSE InsertSlider(sliderValues[Len(sliderValues)],
                      SortSliders(SubSeq(sliderValues, 1, Len(sliderValues) - 1)))

(* variant: the guardrail lists enter the key in request order *)
generateCacheKeyUnsorted(request) ==
    [text |-> TextLower(Trim(request.originalText)),
     sliders |-> SortSliders(request.sliderValues),
     guardrails |-> [required |-> request.guardrails.required,
                     banned |-> request.guardrails.banned],
     model |-> IF request.model = Undefined THEN DefaultModel ELSE request.model]

(* variant: the model is left out of the key *)
generateCacheKeyWithoutModel(request) ==
    [text |-> TextLower(Trim(request.originalText)),
     sliders |-> SortSliders(request.sliderValues),
     guardrails |-> [required |-> SortTerms(request.guardrails.required),
                     banned |-> SortTerms(request.guardrails.banned)],
     model |-> DefaultModel]

(* the canonical key object; JSON.stringify + base64 of it is one-to-one *)
generateCacheKey(request) ==
    [text |-> TextLower(Trim(request.originalText)),
     sliders |-> SortSliders(request.sliderValues),
     guardrails |-> [required |-> SortTerms(request.guardrails.required),
                     banned |-> SortTerms(request.guardrails.banned)],
     model |-> IF request.model = Undefined THEN DefaultModel ELSE request.model]

-----------------------------------------------------------------------------
(* Tone dials.  A dial value is a whole number (the sliders move in steps
   of 1).  A weight w = (clampedValue - 50) / 40 is held as the whole number
   40 * w, which is exact; `w <= 0.2` is then `40 * w * 10 <= 2 * 40`.
   sliderValues is the object's entries in property order. *)

SliderMin == 10
SliderMax == 90
SliderMid == 50
WeightScale == 40
PrimaryCap == 3

Min2(a, b) == IF a <= b THEN a ELSE b
Max2(a, b) == IF a >= b THEN a ELSE b
Abs(x) == IF x < 0 THEN -x ELSE x

(* variant: no clamping *)
normalizeUnclamped(sliderValue) == sliderValue - SliderMid

normalizeSliderValue(sliderValue) ==
    LET clampedValue == Max2(SliderMin, Min2(SliderMax, sliderValue))
    IN  clampedValue - SliderMid

(* absWeight <= tenths / 10 *)
AtMostTenths(absWeight, tenths) == absWeight * 10 <= tenths * WeightScale

(* variant: the breakpoints belong to the higher bucket *)
mapWeightBelowBreakpoints(weight) ==
    LET absWeight == Abs(weight)
    IN  IF absWeight * 10 < 2 * WeightScale THEN "moderate"
        ELSE IF absWeight * 10 < 5 * WeightScale
             THEN (IF weight < 0 THEN "low" ELSE "high")
        ELSE IF weight < 0 THEN "very low" ELSE "very high"

mapWeightToInstruction(weight) ==
    LET absWeight == Abs(weight)
    IN  IF AtMostTenths(absWeight, 2) THEN "moderate"
        ELSE IF AtMostTenths(absWeight, 5)
             THEN (IF weight < 0 THEN "low" ELSE "high")
        ELSE IF weight < 0 THEN "very low" ELSE "very high"

(* Object.entries(sliderValues).map(...) *)
SliderWeights(sliderValues) ==
    [i \in 1..Len(sliderValues) |->
        [dimension |-> sliderValues[i].dimension,
         weight |-> normalizeSliderValue(sliderValues[i].value),
         instruction |-> mapWeightToInstruction(normalizeSliderValue(sliderValues[i].value))]]

(* .filter(w => Math.abs(w.weight) > 0.1) *)
NotNeutral(w) == ~AtMostTenths(Abs(w.weight), 1)

(* variant: an entry goes in front of the entries of equal strength *)
RECURSIVE InsertBeforeEqual(_, _)
InsertBeforeEqual(w, sorted) ==
    IF sorted = <<>> THEN <<w>>
    ELSE IF Abs(w.weight) >= Abs(Head(sorted).weight) THEN <<w>> \o sorted
    ELSE <<Head(sorted)>> \o InsertBeforeEqual(w, Tail(sorted))

(* .sort((a, b) => Math.abs(b.weight) - Math.abs(a.weight)): descending by
   strength, entries of equal strength staying in their order (the sort is
   stable) *)
RECURSIVE InsertByStrength(_, _)
InsertByStrength(w, sorted) ==
    IF sorted = <<>> THEN <<w>>
    ELSE IF Abs(w.weight) > Abs(Head(sorted).weight) THEN <<w>> \o sorted
    ELSE <<Head(sorted)>> \o InsertByStrength(w, Tail(sorted))

RECURSIVE SortByStrength(_)
SortByStrength(weights) ==
    IF weights = <<>> THEN <<>>
    ELSE InsertByStrength(weights[Len(weights)],
                          SortByStrength(SubSeq(weights, 1, Len(weights) - 1)))

(* variants: the first four, the first two, are primary *)
resolveTopFour(sliderValues) ==
    LET weights == SortByStrength(SelectSeq(SliderWeights(sliderValues), NotNeutral))
    IN  [primary |-> SubSeq(weights, 1, Min2(4, Len(weights))),
         secondary |-> SubSeq(weights, 5, Len(weights))]

resolveTopTwo(sliderValues) ==
    LET weights == SortByStrength(SelectSeq(SliderWeights(sliderValues), NotNeutral))
    IN  [primary |-> SubSeq(weights, 1, Min2(2, Len(weights))),
         secondary |-> SubSeq(weights, 3, Len(weights))]

resolveSliderConflicts(sliderValues) ==
    LET weights == SortByStrength(SelectSeq(SliderWeights(sliderValues), NotNeutral))
    IN  [primary |-> SubSeq(weights, 1, Min2(PrimaryCap, Len(weights))),
         secondary |-> SubSeq(weights, PrimaryCap + 1, Len(weights))]

(* The prompt as its sequence of blocks; the fixed wording of a block is its
   name, its lines are `items` *)
ToneLines(weights) ==
    [i \in 1..Len(weights) |-> <<weights[i].dimension, weights[i].instruction>>]
TermLines(terms) == [i \in 1..Len(terms) |-> <<terms[i]>>]
Block(name, items) == [block |-> name, items |-> items]

generatePrompt(originalText, conflicts, guardrails) ==
    <<Block("PREAMBLE", <<>>)>>
    \o (IF Len(conflicts.primary) > 0
        THEN <<Block("PRIMARY TONE INSTRUCTIONS", ToneLines(conflicts.primary))>>
        ELSE <<>>)
    \o (IF Len(conflicts.secondary) > 0
        THEN <<Block("SECONDARY TONE ADJUSTMENTS", ToneLines(conflicts.secondary))>>
        ELSE <<>>)
    \o (IF Len(guardrails.required) > 0
        THEN <<Block("REQUIRED WORDS/PHRASES", TermLines(guardrails.required))>>
        ELSE <<>>)
    \o (IF Len(guardrails.banned) > 0
        THEN <<Block("BANNED WORDS/PHRASES", TermLines(guardrails.banned))>>
        ELSE <<>>)
    \o <<Block("REWRITING GUIDELINES", <<>>),
         Block("ORIGINAL TEXT TO REWRITE", <<originalText>>),
         Block("REWRITTEN TEXT", <<>>)>>

-----------------------------------------------------------------------------
(* CacheService *)

(* RewriteResponse; guardrailViolations = <<>> stands for undefined (the
   source never stores an empty list) *)
NoResult ==
    [rewrittenText |-> <<>>, originalText |-> <<>>, model |-> Undefined,
     processingTime |-> 0, tokensUsed |-> 0, guardrailViolations |-> <<>>]

(* variant: the entry counts as expired at its expiry instant already *)
CacheExpiredAtDeadline(entry, t) == t >= entry.expiry

CacheExpired(entry, t) == t > entry.expiry

(* variant: get(key) never finds anything *)
CacheGetMiss(c, key, t) == [hit |-> FALSE, data |-> NoResult, cache |-> c]

(* get(key): whether a value is returned, the value, and the map afterwards
   (an expired entry is deleted on access) *)
CacheGet(c, key, t) ==
    IF key \notin DOMAIN c THEN [hit |-> FALSE, data |-> NoResult, cache |-> c]
    ELSE IF CacheExpired(c[key], t)
         THEN [hit |-> FALSE, data |-> NoResult, cache |-> MapDelete(c, key)]
    ELSE [hit |-> TRUE, data |-> c[key].data, cache |-> c]

CacheSet(c, key, data, ttlSeconds, t) ==
    MapSet(c, key, [data |-> data, expiry |-> t + ttlSeconds * 1000])

CacheCleanup(c, t) ==
    [k \in {x \in DOMAIN c : ~CacheExpired(c[x], t)} |-> c[k]]


-----------------------------------------------------------------------------
(* MeteringService *)

HourMs == 3600 * 1000

(* variant: one key per user, whatever the month *)
UsageKeyAnyMonth(userId, my) == <<userId, 1>>

UsageKey(userId, my) == <<userId, my>>

loadUsageFromDB(userId, my) ==
    [userId |-> userId, monthYear |-> my, rewritesCount |-> 0, tokensUsed |-> 0,
     costUSD |-> 0, tier |-> "free"]

NoUsage == loadUsageFromDB(Undefined, 0)

cleanCache(uc, my) == [k \in {x \in DOMAIN uc : uc[x].monthYear = my} |-> uc[k]]

CleanDue(t, last) == t - last > HourMs

(* `userTier || 'free'` *)
TierOrFree(userTier) == IF userTier = Undefined THEN "free" ELSE userTier

NoQuota ==
    [called |-> FALSE, canProceed |-> FALSE, reason |-> "none", usage |-> NoUsage,
     model |-> Undefined, userTier |-> Undefined]

QuotaResult(usage, model, userTier, ok, why) ==
    [called |-> TRUE, canProceed |-> ok, reason |-> why, usage |-> usage,
     model |-> model, userTier |-> userTier]

(* variant: the rewrite limit is compared with > *)
QuotaDecisionOverCap(usage, model, userTier) ==
    LET limits == TIER_LIMITS(usage.tier)
    IN  IF model \notin limits.modelAccess
        THEN QuotaResult(usage, model, userTier, FALSE, "model_access")
        ELSE IF usage.rewritesCount > limits.monthlyRewrites
             THEN QuotaResult(usage, model, userTier, FALSE, "rewrite_limit")
        ELSE IF usage.costUSD >= limits.monthlyBudgetUSD
             THEN QuotaResult(usage, model, userTier, FALSE, "budget_limit")
        ELSE IF usage.costUSD + estimateRequestCost(model, EstimatedTokens)
                  > limits.monthlyBudgetUSD
             THEN QuotaResult(usage, model, userTier, FALSE, "estimated_cost")
        ELSE QuotaResult(usage, model, userTier, TRUE, "none")

(* variant: the rewrite limit is checked before the model *)
QuotaDecisionCountFirst(usage, model, userTier) ==
    LET limits == TIER_LIMITS(usage.tier)
    IN  IF usage.rewritesCount >= limits.monthlyRewrites
        THEN QuotaResult(usage, model, userTier, FALSE, "rewrite_limit")
        ELSE IF model \notin limits.modelAccess
             THEN QuotaResult(usage, model, userTier, FALSE, "model_access")
        ELSE IF usage.costUSD >= limits.monthlyBudgetUSD
             THEN QuotaResult(usage, model, userTier, FALSE, "budget_limit")
        ELSE IF usage.costUSD + estimateRequestCost(model, EstimatedTokens)
                  > limits.monthlyBudgetUSD
             THEN QuotaResult(usage, model, userTier, FALSE, "estimated_cost")
        ELSE QuotaResult(usage, model, userTier, TRUE, "none")

(* variant: the estimated cost is compared with >= *)
QuotaDecisionEstimateAtBudget(usage, model, userTier) ==
    LET limits == TIER_LIMITS(usage.tier)
    IN  IF model \notin limits.modelAccess
        THEN QuotaResult(usage, model, userTier, FALSE, "model_access")
        ELSE IF usage.rewritesCount >= limits.monthlyRewrites
             THEN QuotaResult(usage, model, userTier, FALSE, "rewrite_limit")
        ELSE IF usage.costUSD >= limits.monthlyBudgetUSD
             THEN QuotaResult(usage, model, userTier, FALSE, "budget_limit")
        ELSE IF usage.costUSD + estimateRequestCost(model, EstimatedTokens)
                  >= limits.monthlyBudgetUSD
             THEN QuotaResult(usage, model, userTier, FALSE, "estimated_cost")
        ELSE QuotaResult(usage, model, userTier, TRUE, "none")

(* the body of checkQuota's try block once getCurrentUsage has returned *)
QuotaDecision(usage, model, userTier) ==
    LET limits == TIER_LIMITS(usage.tier)
    IN  IF model \notin limits.modelAccess
        THEN QuotaResult(usage, model, userTier, FALSE, "model_access")
        ELSE IF usage.rewritesCount >= limits.monthlyRewrites
             THEN QuotaResult(usage, model, userTier, FALSE, "rewrite_limit")
        ELSE IF usage.costUSD >= limits.monthlyBudgetUSD
             THEN QuotaResult(usage, model, userTier, FALSE, "budget_limit")
        ELSE IF usage.costUSD + estimateRequestCost(model, EstimatedTokens)
                  > limits.monthlyBudgetUSD
             THEN QuotaResult(usage, model, userTier, FALSE, "estimated_cost")
        ELSE QuotaResult(usage, model, userTier, TRUE, "none")

(* checkQuota's catch block *)
QuotaOnError(model, userTier) ==
    [called |-> TRUE, canProceed |-> userTier # "free", reason |-> "unable_to_verify",
     usage |-> NoUsage, model |-> model, userTier |-> userTier]

(* Math.round((part / whole) * 100) for the limits of TIER_LIMITS, which
   are 100 or multiples of 200 *)
RoundPercent(part, whole) == (part + whole \div 200) \div (whole \div 100)

NoReport == [usage |-> NoUsage, rewritesPercent |-> 0, budgetPercent |-> 0]

(* what getUserUsage returns (208-224); daysLeftInMonth, read off the
   calendar, is left out *)
UsageReport(usage) ==
    [usage |-> usage,
     rewritesPercent |->
        RoundPercent(usage.rewritesCount, TIER_LIMITS(usage.tier).monthlyRewrites),
     budgetPercent |->
        RoundPercent(usage.costUSD, TIER_LIMITS(usage.tier).monthlyBudgetUSD)]

(* recordUsage's three increments *)
AddUsage(usage, tokensUsed, cost) ==
    [usage EXCEPT !.rewritesCount = @ + 1,
                  !.tokensUsed = @ + tokensUsed,
                  !.costUSD = @ + cost]


-----------------------------------------------------------------------------
(* Handlers.  Each handler runs one POST /api/rewrite request, or one direct
   call of a MeteringService method (as /api/usage and the batch endpoint
   make them).  Every `await` in the source is a point where other handlers
   may run.                                                                 *)

NoGuardrails == [required |-> <<>>, banned |-> <<>>]

NoReq ==
    [kind |-> "none", userId |-> Undefined, model |-> Undefined, tier |-> Undefined,
     tokens |-> 0, originalText |-> <<>>, sliderValues |-> <<>>,
     guardrails |-> NoGuardrails, texts |-> <<>>, authTier |-> Undefined]

NoLLM == [text |-> <<>>, tokensUsed |-> 0]

NoLoc ==
    [startTime |-> 0, cacheKey |-> generateCacheKey(NoReq), cacheHit |-> FALSE,
     cached |-> NoResult,
     llmResponse |-> NoLLM, violations |-> <<>>,
     retried |-> FALSE, retryResponse |-> NoLLM, retryViolations |-> <<>>,
     finalText |-> <<>>, processingTime |-> 0,
     i |-> 0, result |-> NoResult, results |-> <<>>, errors |-> <<>>]

NoHeld == [kind |-> "none", key |-> UsageKey(Undefined, 0), val |-> NoUsage]

NoResp ==
    [status |-> "none", code |-> 0, data |-> NoResult, quota |-> NoQuota,
     report |-> NoReport, results |-> <<>>, errors |-> <<>>]

NoHist ==
    [quota |-> NoQuota, quotaCalls |-> 0, providerCalls |-> 0, providerTokens |-> 0,
     recordCalls |-> 0, recordedTokens |-> 0, cacheWrites |-> 0, readFailed |-> FALSE,
     month |-> 0, providerFailed |-> 0, cacheFault |-> FALSE]

(* `requestData.userId || 'anonymous'`, `requestData.model || 'gpt-3.5-turbo'` *)
UserOf(r) == IF r.userId = Undefined THEN "anonymous" ELSE r.userId
ModelOf(r) == IF r.model = Undefined THEN DefaultModel ELSE r.model

(* The UserUsage object a handler holds: the one in the map, or one that is
   no longer (or not yet) in the map *)
HeldUsage(p) ==
    IF held[p].kind = "live" THEN usageCache[held[p].key] ELSE held[p].val

(* held' when handler p's reference becomes hp and the objects under the
   keys in `lost` leave the map (deleted, or replaced by another object):
   a handler still holding one keeps the object as it was *)
HeldAfter(p, hp, lost) ==
    [q \in Procs |->
        IF q = p THEN hp
        ELSE IF held[q].kind = "live" /\ held[q].key \in lost
             THEN [kind |-> "own", key |-> held[q].key, val |-> usageCache[held[q].key]]
        ELSE held[q]]

(* `if (!canProceed)`: canProceed is the object checkQuota returned, and an
   object is truthy whatever its fields hold *)
Truthy(quotaResult) == TRUE

CacheTtlSeconds == 600

(* where a handler goes when the metering call it is in returns *)
AfterQuota(p, result) ==
    IF req[p].kind = "rewrite"
    THEN IF ~Truthy(result)
         THEN /\ pc' = [pc EXCEPT ![p] = "done"]
              /\ resp' = [resp EXCEPT ![p] = [NoResp EXCEPT !.status = "quota_exceeded",
                                                            !.code = 429]]
         ELSE /\ pc' = [pc EXCEPT ![p] = "llm"]
              /\ resp' = resp
    ELSE /\ pc' = [pc EXCEPT ![p] = "done"]
         /\ resp' = [resp EXCEPT ![p] = [NoResp EXCEPT !.status = "returned",
                                                       !.quota = result]]

AfterRecord(p) ==
    IF req[p].kind = "rewrite"
    THEN /\ pc' = [pc EXCEPT ![p] = "store"]
         /\ resp' = resp
    ELSE IF req[p].kind = "batch"
    THEN /\ pc' = [pc EXCEPT ![p] = "bPush"]
         /\ resp' = resp
    ELSE /\ pc' = [pc EXCEPT ![p] = "done"]
         /\ resp' = [resp EXCEPT ![p] = [NoResp EXCEPT !.status = "returned"]]

(* rewrite.ts 37-52: the request arrives, processRequest computes the key *)
Receive(p, r) ==
    /\ pc[p] = "idle"
    /\ pc' = [pc EXCEPT ![p] = "lookup"]
    /\ req' = [req EXCEPT ![p] = r]
    /\ loc' = [loc EXCEPT ![p] = [NoLoc EXCEPT !.startTime = now,
                                                !.cacheKey = generateCacheKey(r)]]
    /\ UNCHANGED <<now, monthYear, cache, usageCache, lastCacheClean, held, resp, hist>>

(* variant: the cached result is not returned, the pipeline runs on *)
CacheLookupNoReturn(p) ==
    /\ pc[p] = "lookup"
    /\ cache' = CacheGet(cache, loc[p].cacheKey, now).cache
    /\ pc' = [pc EXCEPT ![p] = "quota"]
    /\ UNCHANGED <<now, monthYear, usageCache, lastCacheClean, req, loc, held, resp, hist>>

(* rewrite.ts 55-68 *)
CacheLookup(p) ==
    /\ pc[p] = "lookup"
    /\ LET got == CacheGet(cache, loc[p].cacheKey, now)
       IN  /\ cache' = got.cache
           /\ IF got.hit
              THEN /\ pc' = [pc EXCEPT ![p] = "done"]
                   /\ loc' = [loc EXCEPT ![p].cacheHit = TRUE, ![p].cached = got.data]
                   /\ resp' = [resp EXCEPT ![p] =
                                 [NoResp EXCEPT !.status = "ok", !.code = 200,
                                    !.data = [got.data EXCEPT !.processingTime =
                                                              now - loc[p].startTime]]]
              ELSE /\ pc' = [pc EXCEPT ![p] = "quota"]
                   /\ UNCHANGED <<loc, resp>>
    /\ UNCHANGED <<now, monthYear, usageCache, lastCacheClean, req, held, hist>>

(* checkQuota 87-89 (or getUserUsage 209) with getCurrentUsage 277-287: up
   to the first await *)
QuotaStart(p) ==
    /\ pc[p] = "quota"
    /\ LET key == UsageKey(UserOf(req[p]), monthYear)
           due == CleanDue(now, lastCacheClean)
           uc == IF due THEN cleanCache(usageCache, monthYear) ELSE usageCache
           lost == (DOMAIN usageCache) \ (DOMAIN uc)
       IN  /\ usageCache' = uc
           /\ lastCacheClean' = IF due THEN now ELSE lastCacheClean
           /\ IF key \in DOMAIN uc
              THEN /\ pc' = [pc EXCEPT ![p] = "quotaDecide"]
                   /\ held' = HeldAfter(p, [NoHeld EXCEPT !.kind = "live", !.key = key], lost)
              ELSE /\ pc' = [pc EXCEPT ![p] = "quotaLoad"]
                   /\ held' = HeldAfter(p, [NoHeld EXCEPT !.kind = "loading", !.key = key], lost)
    /\ hist' = [hist EXCEPT ![p].quotaCalls =
                                IF req[p].kind = "getUserUsage" THEN @ ELSE @ + 1,
                            ![p].month = monthYear]
    /\ UNCHANGED <<now, monthYear, cache, req, loc, resp>>

(* getCurrentUsage 287-289 after `await loadUsageFromDB`; a failing read
   lands in checkQuota's catch block (139-146), and leaves getUserUsage,
   which has none, as an exception *)
QuotaLoaded(p, readFails) ==
    /\ pc[p] = "quotaLoad"
    /\ IF readFails
       THEN /\ held' = [held EXCEPT ![p] = NoHeld]
            /\ UNCHANGED usageCache
            /\ IF req[p].kind = "getUserUsage"
               THEN /\ hist' = [hist EXCEPT ![p].readFailed = TRUE]
                    /\ pc' = [pc EXCEPT ![p] = "done"]
                    /\ resp' = [resp EXCEPT ![p] = [NoResp EXCEPT !.status = "threw"]]
               ELSE LET result == QuotaOnError(ModelOf(req[p]), req[p].tier)
                    IN  /\ hist' = [hist EXCEPT ![p].quota = result,
                                                ![p].readFailed = TRUE]
                        /\ AfterQuota(p, result)
       ELSE LET key == held[p].key
                usage == [loadUsageFromDB(key[1], key[2])
                            EXCEPT !.tier = TierOrFree(req[p].tier)]
            IN  /\ usageCache' = MapSet(usageCache, key, usage)
                /\ held' = HeldAfter(p, [NoHeld EXCEPT !.kind = "live", !.key = key],
                                     {key} \cap DOMAIN usageCache)
                /\ pc' = [pc EXCEPT ![p] = "quotaDecide"]
                /\ UNCHANGED <<hist, resp>>
    /\ UNCHANGED <<now, monthYear, cache, lastCacheClean, req, loc>>

(* checkQuota 90-137 after `await getCurrentUsage`, then rewrite.ts 76-82;
   getUserUsage 210-224 after its `await getCurrentUsage` *)
QuotaDecide(p) ==
    /\ pc[p] = "quotaDecide"
    /\ IF req[p].kind = "getUserUsage"
       THEN /\ hist' = hist
            /\ pc' = [pc EXCEPT ![p] = "done"]
            /\ resp' = [resp EXCEPT ![p] = [NoResp EXCEPT !.status = "returned",
                                                          !.report = UsageReport(HeldUsage(p))]]
       ELSE LET result == QuotaDecision(HeldUsage(p), ModelOf(req[p]), req[p].tier)
            IN  /\ hist' = [hist EXCEPT ![p].quota = result]
                /\ AfterQuota(p, result)
    /\ held' = [held EXCEPT ![p] = NoHeld]
    /\ UNCHANGED <<now, monthYear, cache, usageCache, lastCacheClean, req, loc>>


(* rewrite.ts 96 and 108 *)
NeedsRetry(violations) == Len(violations) > 0

(* variant: the retry is preferred when it is no worse *)
RetryNotWorse(retryViolations, violations) == Len(retryViolations) <= Len(violations)

RetryImproves(retryViolations, violations) == Len(retryViolations) < Len(violations)

ProviderFailure == [ok |-> FALSE, text |-> <<>>, tokensUsed |-> 0]

(* the catch block of the route, rewrite.ts 151-166 *)
RewriteFailed(p) ==
    /\ pc' = [pc EXCEPT ![p] = "done"]
    /\ resp' = [resp EXCEPT ![p] = [NoResp EXCEPT !.status = "rewrite_failed", !.code = 500]]

(* variant: a failure of the first provider call is answered with the
   retry call *)
ProviderCallRetriesFailure(p, out) ==
    /\ pc[p] = "llm"
    /\ hist' = [hist EXCEPT ![p].providerCalls = @ + 1,
                            ![p].providerTokens = @ + out.tokensUsed,
                            ![p].providerFailed = IF out.ok THEN @ ELSE @ + 1]
    /\ LET violations == validateOutput(req[p].originalText, out.text, req[p].guardrails)
       IN  /\ loc' = [loc EXCEPT ![p].llmResponse = [text |-> out.text,
                                                     tokensUsed |-> out.tokensUsed],
                                 ![p].violations = violations,
                                 ![p].finalText = out.text,
                                 ![p].processingTime = now - loc[p].startTime]
           /\ pc' = [pc EXCEPT ![p] = IF ~out.ok \/ NeedsRetry(violations) THEN "retry"
                                       ELSE "record"]
           /\ resp' = resp
    /\ UNCHANGED <<now, monthYear, cache, usageCache, lastCacheClean, req, held>>

(* rewrite.ts 85-96 and, with no violation, 114: the first provider call
   has returned `out` (or thrown) *)
ProviderCall(p, out) ==
    /\ pc[p] = "llm"
    /\ hist' = [hist EXCEPT ![p].providerCalls = @ + 1,
                            ![p].providerTokens = @ + out.tokensUsed,
                            ![p].providerFailed = IF out.ok THEN @ ELSE @ + 1]
    /\ IF ~out.ok
       THEN /\ RewriteFailed(p)
            /\ loc' = loc
       ELSE LET violations == validateOutput(req[p].originalText, out.text, req[p].guardrails)
            IN  /\ loc' = [loc EXCEPT ![p].llmResponse = [text |-> out.text,
                                                          tokensUsed |-> out.tokensUsed],
                                      ![p].violations = violations,
                                      ![p].finalText = out.text,
                                      ![p].processingTime = now - loc[p].startTime]
                /\ pc' = [pc EXCEPT ![p] = IF NeedsRetry(violations) THEN "retry"
                                            ELSE "record"]
                /\ resp' = resp
    /\ UNCHANGED <<now, monthYear, cache, usageCache, lastCacheClean, req, held>>

(* rewrite.ts 99-114: the retry with the stricter prompt has returned *)
ProviderRetry(p, out) ==
    /\ pc[p] = "retry"
    /\ hist' = [hist EXCEPT ![p].providerCalls = @ + 1,
                            ![p].providerTokens = @ + out.tokensUsed,
                            ![p].providerFailed = IF out.ok THEN @ ELSE @ + 1]
    /\ IF ~out.ok
       THEN /\ RewriteFailed(p)
            /\ loc' = loc
       ELSE LET retryViolations ==
                    validateOutput(req[p].originalText, out.text, req[p].guardrails)
            IN  /\ loc' = [loc EXCEPT ![p].retried = TRUE,
                                      ![p].retryResponse = [text |-> out.text,
                                                            tokensUsed |-> out.tokensUsed],
                                      ![p].retryViolations = retryViolations,
                                      ![p].finalText =
                                          IF RetryImproves(retryViolations, loc[p].violations)
                                          THEN out.text ELSE @,
                                      ![p].processingTime = now - loc[p].startTime]
                /\ pc' = [pc EXCEPT ![p] = "record"]
                /\ resp' = resp
    /\ UNCHANGED <<now, monthYear, cache, usageCache, lastCacheClean, req, held>>

(* the tokensUsed argument of recordUsage: rewrite.ts 117-121 passes the
   first response's count *)
TokensToRecord(p) ==
    IF req[p].kind \in {"rewrite", "batch"} THEN loc[p].llmResponse.tokensUsed
    ELSE req[p].tokens

(* recordUsage 159-176 when the record is in the map (no await in between),
   and 159-169 up to `await loadUsageFromDB` when it is not *)
RecordStart(p) ==
    /\ pc[p] = "record"
    /\ hist' = [hist EXCEPT ![p].recordCalls = @ + 1,
                            ![p].recordedTokens = @ + TokensToRecord(p),
                            ![p].month = monthYear]
    /\ LET key == UsageKey(UserOf(req[p]), monthYear)
           cost == calculateCost(ModelOf(req[p]), TokensToRecord(p), 0, 0)
       IN  IF key \in DOMAIN usageCache
           THEN /\ usageCache' = [usageCache EXCEPT
                                    ![key] = AddUsage(@, TokensToRecord(p), cost)]
                /\ held' = held
                /\ AfterRecord(p)
           ELSE /\ pc' = [pc EXCEPT ![p] = "recordLoad"]
                /\ held' = [held EXCEPT ![p] = [NoHeld EXCEPT !.kind = "loading", !.key = key]]
                /\ UNCHANGED <<usageCache, resp>>
    /\ UNCHANGED <<now, monthYear, cache, lastCacheClean, req, loc>>

(* recordUsage 172-176 after `await loadUsageFromDB`; a failing read is
   caught and swallowed (191-194) *)
RecordLoaded(p, readFails) ==
    /\ pc[p] = "recordLoad"
    /\ hist' = [hist EXCEPT ![p].readFailed = readFails]
    /\ IF readFails
       THEN /\ usageCache' = usageCache
            /\ held' = [held EXCEPT ![p] = NoHeld]
       ELSE LET key == held[p].key
                cost == calculateCost(ModelOf(req[p]), TokensToRecord(p), 0, 0)
                usage == AddUsage(loadUsageFromDB(key[1], key[2]), TokensToRecord(p), cost)
            IN  /\ usageCache' = MapSet(usageCache, key, usage)
                /\ held' = HeldAfter(p, NoHeld, {key} \cap DOMAIN usageCache)
    /\ AfterRecord(p)
    /\ UNCHANGED <<now, monthYear, cache, lastCacheClean, req, loc>>

(* rewrite.ts 124-131 *)
ResponseData(p) ==
    [rewrittenText |-> loc[p].finalText,
     originalText |-> req[p].originalText,
     model |-> ModelOf(req[p]),
     processingTime |-> loc[p].processingTime,
     tokensUsed |-> loc[p].llmResponse.tokensUsed,
     guardrailViolations |-> IF Len(loc[p].violations) > 0 THEN loc[p].violations ELSE <<>>]

(* rewrite.ts 134-149 *)
CacheStore(p) ==
    /\ pc[p] = "store"
    /\ cache' = CacheSet(cache, loc[p].cacheKey, ResponseData(p), CacheTtlSeconds, now)
    /\ hist' = [hist EXCEPT ![p].cacheWrites = @ + 1]
    /\ resp' = [resp EXCEPT ![p] = [NoResp EXCEPT !.status = "ok", !.code = 200,
                                                  !.data = ResponseData(p)]]
    /\ pc' = [pc EXCEPT ![p] = "done"]
    /\ UNCHANGED <<now, monthYear, usageCache, lastCacheClean, req, loc, held>>

(* rewrite.ts 55 when the promise of cacheService.get is rejected: the
   await throws inside the route's try block, the catch block answers *)
CacheLookupFault(p) ==
    /\ pc[p] = "lookup"
    /\ hist' = [hist EXCEPT ![p].cacheFault = TRUE]
    /\ RewriteFailed(p)
    /\ UNCHANGED <<now, monthYear, cache, usageCache, lastCacheClean, req, loc, held>>

(* rewrite.ts 134 when the promise of cacheService.set is rejected *)
CacheStoreFault(p) ==
    /\ pc[p] = "store"
    /\ hist' = [hist EXCEPT ![p].cacheFault = TRUE]
    /\ RewriteFailed(p)
    /\ UNCHANGED <<now, monthYear, cache, usageCache, lastCacheClean, req, loc, held>>

(* POST /api/rewrite/batch *)

BatchLimit == 10

(* rewrite.ts 190-198 for the item after the current one, or 233-239 when
   there is none: `locNow` is the handler's locals with the current item's
   outcome pushed *)
BatchAdvance(p, locNow) ==
    IF locNow.i < Len(req[p].texts)
    THEN LET item == [req[p] EXCEPT !.originalText = req[p].texts[locNow.i + 1]]
         IN  /\ req' = [req EXCEPT ![p] = item]
             /\ loc' = [loc EXCEPT ![p] = [locNow EXCEPT !.i = @ + 1,
                                                        !.cacheKey = generateCacheKey(item)]]
             /\ pc' = [pc EXCEPT ![p] = "bLookup"]
             /\ resp' = resp
    ELSE /\ req' = req
         /\ loc' = [loc EXCEPT ![p] = locNow]
         /\ pc' = [pc EXCEPT ![p] = "done"]
         /\ resp' = [resp EXCEPT ![p] = [NoResp EXCEPT !.status = "ok", !.code = 200,
                                                       !.results = locNow.results,
                                                       !.errors = locNow.errors]]

(* rewrite.ts 177-198: the batch arrives; a wrong size is refused, else the
   first item is built and processRequest computes its key *)
BatchReceive(p, texts, common) ==
    /\ pc[p] = "idle"
    /\ IF Len(texts) = 0 \/ Len(texts) > BatchLimit
       THEN /\ pc' = [pc EXCEPT ![p] = "done"]
            /\ req' = [req EXCEPT ![p] = [common EXCEPT !.kind = "batch", !.texts = texts]]
            /\ resp' = [resp EXCEPT ![p] = [NoResp EXCEPT !.status = "invalid_batch_size",
                                                          !.code = 400]]
            /\ loc' = loc
       ELSE LET item == [common EXCEPT !.kind = "batch", !.texts = texts,
                                       !.originalText = texts[1]]
            IN  /\ pc' = [pc EXCEPT ![p] = "bLookup"]
                /\ req' = [req EXCEPT ![p] = item]
                /\ loc' = [loc EXCEPT ![p] = [NoLoc EXCEPT !.i = 1,
                                                           !.cacheKey = generateCacheKey(item)]]
                /\ resp' = resp
    /\ UNCHANGED <<now, monthYear, cache, usageCache, lastCacheClean, held, hist>>

(* rewrite.ts 201-203 and, on a hit, 223 *)
BatchLookup(p) ==
    /\ pc[p] = "bLookup"
    /\ LET got == CacheGet(cache, loc[p].cacheKey, now)
       IN  /\ cache' = got.cache
           /\ IF got.hit
              THEN BatchAdvance(p, [loc[p] EXCEPT !.results = Append(@, got.data)])
              ELSE /\ pc' = [pc EXCEPT ![p] = "bLlm"]
                   /\ UNCHANGED <<req, loc, resp>>
    /\ UNCHANGED <<now, monthYear, usageCache, lastCacheClean, held, hist>>

(* rewrite.ts 204-212: the provider call has returned `out`; when it threw,
   225-230 *)
BatchProvider(p, out) ==
    /\ pc[p] = "bLlm"
    /\ hist' = [hist EXCEPT ![p].providerCalls = @ + 1,
                            ![p].providerTokens = @ + out.tokensUsed,
                            ![p].providerFailed = IF out.ok THEN @ ELSE @ + 1]
    /\ IF ~out.ok
       THEN BatchAdvance(p, [loc[p] EXCEPT !.errors = Append(@, loc[p].i)])
       ELSE /\ loc' = [loc EXCEPT ![p].llmResponse = [text |-> out.text,
                                                      tokensUsed |-> out.tokensUsed],
                                  ![p].result =
                                      [rewrittenText |-> out.text,
                                       originalText |-> req[p].originalText,
                                       model |-> ModelOf(req[p]),
                                       processingTime |-> 0,
                                       tokensUsed |-> out.tokensUsed,
                                       guardrailViolations |-> <<>>]]
            /\ pc' = [pc EXCEPT ![p] = "bStore"]
            /\ UNCHANGED <<req, resp>>
    /\ UNCHANGED <<now, monthYear, cache, usageCache, lastCacheClean, held>>

(* rewrite.ts 214; recordUsage (216-220) is entered next *)
BatchStore(p) ==
    /\ pc[p] = "bStore"
    /\ cache' = CacheSet(cache, loc[p].cacheKey, loc[p].result, CacheTtlSeconds, now)
    /\ hist' = [hist EXCEPT ![p].cacheWrites = @ + 1]
    /\ pc' = [pc EXCEPT ![p] = "record"]
    /\ UNCHANGED <<now, monthYear, usageCache, lastCacheClean, req, loc, held, resp>>

(* rewrite.ts 223 after `await meteringService.recordUsage` *)
BatchPush(p) ==
    /\ pc[p] = "bPush"
    /\ BatchAdvance(p, [loc[p] EXCEPT !.results = Append(@, loc[p].result)])
    /\ UNCHANGED <<now, monthYear, cache, usageCache, lastCacheClean, held, hist>>

(* a direct call of checkQuota(userId, model, userTier) *)
CallCheckQuota(p, userId, model, userTier) ==
    /\ pc[p] = "idle"
    /\ pc' = [pc EXCEPT ![p] = "quota"]
    /\ req' = [req EXCEPT ![p] = [NoReq EXCEPT !.kind = "checkQuota", !.userId = userId,
                                               !.model = model, !.tier = userTier]]
    /\ UNCHANGED <<now, monthYear, cache, usageCache, lastCacheClean, loc, held, resp, hist>>

(* a direct call of recordUsage(userId, model, tokensUsed) *)
CallRecordUsage(p, userId, model, tokensUsed) ==
    /\ pc[p] = "idle"
    /\ pc' = [pc EXCEPT ![p] = "record"]
    /\ req' = [req EXCEPT ![p] = [NoReq EXCEPT !.kind = "recordUsage", !.userId = userId,
                                               !.model = model, !.tokens = tokensUsed]]
    /\ UNCHANGED <<now, monthYear, cache, usageCache, lastCacheClean, loc, held, resp, hist>>

(* a direct call of getUserUsage(userId, userTier); the parameter's default
   is 'free' *)
CallGetUserUsage(p, userId, userTier) ==
    /\ pc[p] = "idle"
    /\ pc' = [pc EXCEPT ![p] = "quota"]
    /\ req' = [req EXCEPT ![p] = [NoReq EXCEPT !.kind = "getUserUsage", !.userId = userId,
                                               !.tier = TierOrFree(userTier)]]
    /\ UNCHANGED <<now, monthYear, cache, usageCache, lastCacheClean, loc, held, resp, hist>>

(* the clock advances to a later instant in the next calendar month *)
MonthTurn(instants) ==
    /\ monthYear < MaxMonth
    /\ monthYear' = monthYear + 1
    /\ \E t \in instants : t > now /\ now' = t
    /\ UNCHANGED <<cache, usageCache, lastCacheClean, pc, req, loc, held, resp, hist>>

(* the clock advances to a later instant *)
Tick(instants) ==
    /\ \E t \in instants : t > now /\ now' = t
    /\ UNCHANGED <<monthYear, cache, usageCache, lastCacheClean, pc, req, loc, held, resp, hist>>

-----------------------------------------------------------------------------
(* POST /api/rewrite under concurrent requests *)

CacheTtlMs == CacheTtlSeconds * 1000

PipelineInstants == {0} \cup {k * CacheTtlMs + d : k \in 1..MaxPeriods, d \in {0, 1}}

Guarded == [required |-> <<"update">>, banned |-> <<"bad">>]

Sliders == <<[dimension |-> "formality", value |-> 80]>>

RewriteInputs ==
    {[NoReq EXCEPT !.kind = "rewrite", !.userId = "dev-user-123", !.model = m,
                   !.originalText = <<"update">>, !.sliderValues = Sliders,
                   !.guardrails = Guarded] : m \in {"gpt-3.5-turbo", "gpt-4"}}

(* what the provider can answer: a text with its token count, or a failure *)
Outcomes(texts, tokens) ==
    {[ok |-> TRUE, text |-> t, tokensUsed |-> n] : t \in texts, n \in tokens}
    \cup {ProviderFailure}

ProviderOutcomes == Outcomes({<<"update">>, <<"bad">>}, {50})

InitHandlers ==
    /\ pc = [p \in Procs |-> "idle"]
    /\ req = [p \in Procs |-> NoReq]
    /\ loc = [p \in Procs |-> NoLoc]
    /\ held = [p \in Procs |-> NoHeld]
    /\ resp = [p \in Procs |-> NoResp]
    /\ hist = [p \in Procs |-> NoHist]

(* handlers are interchangeable: they are taken into use in order; the
   clock is only observed while a handler can still act *)
InOrder(p) == IF p = 1 THEN TRUE ELSE pc[p - 1] # "idle"
Busy == \E p \in Procs : pc[p] # "done"

NoInsert == [at |-> 0, ttl |-> 0, data |-> NoResult]

NoGet ==
    [valid |-> FALSE, key |-> generateCacheKey(NoReq), hit |-> FALSE, data |-> NoResult,
     at |-> 0, known |-> FALSE, ins |-> NoInsert]

NoTone ==
    [fn |-> "none", stage |-> 0, value |-> SliderMid, other |-> SliderMid,
     sliderValues |-> <<>>, guardrails |-> NoGuardrails, originalText |-> <<>>,
     weight |-> 0, otherWeight |-> 0, instruction |-> "moderate",
     conflicts |-> [primary |-> <<>>, secondary |-> <<>>], prompt |-> <<>>]

NoKeyed ==
    [stage |-> 0, a |-> NoReq, b |-> NoReq,
     keyA |-> generateCacheKey(NoReq), keyB |-> generateCacheKey(NoReq),
     hit |-> FALSE, data |-> NoResult,
     candidate |-> <<>>, violationsA |-> <<>>, violationsB |-> <<>>]

(* no slider or key computation under way *)
InitIdle ==
    /\ tone = NoTone
    /\ keyed = NoKeyed

InitServices ==
    /\ now = 0
    /\ monthYear = 1
    /\ cache = EmptyMap
    /\ lastCacheClean = 0
    /\ shadow = EmptyMap
    /\ lastGet = NoGet

InitRest ==
    /\ InitServices
    /\ usageCache = EmptyMap
    /\ usage0 = usageCache
    /\ InitHandlers

Init ==
    /\ InitRest
    /\ InitIdle

Pipeline ==
    \/ \E p \in Procs, r \in RewriteInputs : InOrder(p) /\ Receive(p, r)
    \/ \E p \in Procs : CacheLookup(p)
    \/ \E p \in Procs : QuotaStart(p)
    \/ \E p \in Procs : QuotaLoaded(p, FALSE)
    \/ \E p \in Procs : QuotaDecide(p)
    \/ \E p \in Procs, out \in ProviderOutcomes : ProviderCall(p, out)
    \/ \E p \in Procs, out \in ProviderOutcomes : ProviderRetry(p, out)
    \/ \E p \in Procs : RecordStart(p)
    \/ \E p \in Procs : CacheStore(p)
    \/ Busy /\ Tick(PipelineInstants)

Next == Pipeline /\ UNCHANGED obs

Spec == Init /\ [][Next]_vars

-----------------------------------------------------------------------------
(* One POST /api/rewrite request on a cold server, with every kind of
   provider answer: compliant, one violation (two different texts), two
   violations; two token counts *)

AllOutcomes ==
    Outcomes({<<"update">>, <<"ok">>, <<"update", "bad">>, <<"bad">>}, {50, 70})

PipelineSingle ==
    \/ \E r \in RewriteInputs : Receive(1, r)
    \/ CacheLookup(1)
    \/ QuotaStart(1)
    \/ QuotaLoaded(1, FALSE)
    \/ QuotaDecide(1)
    \/ \E out \in AllOutcomes : ProviderCall(1, out)
    \/ \E out \in AllOutcomes : ProviderRetry(1, out)
    \/ RecordStart(1)
    \/ CacheStore(1)
    \/ pc[1] # "done" /\ Tick(PipelineInstants)

NextSingle == PipelineSingle /\ UNCHANGED obs

SpecSingle == Init /\ [][NextSingle]_vars


-----------------------------------------------------------------------------
(* One POST /api/rewrite request whose cache calls can fail *)

PipelineFault ==
    \/ PipelineSingle
    \/ CacheLookupFault(1)
    \/ CacheStoreFault(1)

NextFault == PipelineFault /\ UNCHANGED obs

SpecFault == Init /\ [][NextFault]_vars

-----------------------------------------------------------------------------
(* One request to POST /api/rewrite or to POST /api/rewrite/batch on a cold
   server *)

MaxBatch == 2

BatchItems == {<<"update">>, <<"ok">>}

BatchTexts == UNION {[1..n -> BatchItems] : n \in 0..MaxBatch}

PipelineBatch ==
    \/ \E r \in RewriteInputs : Receive(1, r)
    \/ \E texts \in BatchTexts, common \in RewriteInputs : BatchReceive(1, texts, common)
    \/ CacheLookup(1)
    \/ QuotaStart(1)
    \/ QuotaLoaded(1, FALSE)
    \/ QuotaDecide(1)
    \/ \E out \in ProviderOutcomes : ProviderCall(1, out)
    \/ \E out \in ProviderOutcomes : ProviderRetry(1, out)
    \/ RecordStart(1)
    \/ RecordLoaded(1, FALSE)
    \/ CacheStore(1)
    \/ BatchLookup(1)
    \/ \E out \in ProviderOutcomes : BatchProvider(1, out)
    \/ BatchStore(1)
    \/ BatchPush(1)
    \/ pc[1] # "done" /\ Tick(PipelineInstants)

NextBatch == PipelineBatch /\ UNCHANGED obs

SpecBatch == Init /\ [][NextBatch]_vars

-----------------------------------------------------------------------------
(* POST /api/rewrite under concurrent requests of two users, for the same
   text written in two ways.  req.user is what authenticateUser put there:
   the development stub of auth.ts always puts dev-user-123 with the tier
   premium; the route takes whatever user the middleware supplies, here also
   one of the tier free *)

AuthUsers ==
    {[id |-> "dev-user-123", tier |-> "premium"], [id |-> "free-user", tier |-> "free"]}

SharedInputs ==
    {[NoReq EXCEPT !.kind = "rewrite", !.userId = u.id, !.authTier = u.tier,
                   !.model = "gpt-4", !.originalText = t, !.sliderValues = Sliders,
                   !.guardrails = Guarded] :
        u \in AuthUsers, t \in {<<"update">>, <<"Update">>}}

PipelineShared ==
    \/ \E p \in Procs, r \in SharedInputs : InOrder(p) /\ Receive(p, r)
    \/ \E p \in Procs : CacheLookup(p)
    \/ \E p \in Procs : QuotaStart(p)
    \/ \E p \in Procs : QuotaLoaded(p, FALSE)
    \/ \E p \in Procs : QuotaDecide(p)
    \/ \E p \in Procs, out \in ProviderOutcomes : ProviderCall(p, out)
    \/ \E p \in Procs, out \in ProviderOutcomes : ProviderRetry(p, out)
    \/ \E p \in Procs : RecordStart(p)
    \/ \E p \in Procs : CacheStore(p)
    \/ Busy /\ Tick(PipelineInstants)

NextShared == PipelineShared /\ UNCHANGED obs

SpecShared == Init /\ [][NextShared]_vars

-----------------------------------------------------------------------------
(* CacheService on its own: any sequence of set, get, delete, clear and the
   periodic cleanup, at the instants around the expiry times *)

CleanupIntervalMs == 5 * 60 * 1000

CacheInstants ==
    {0} \cup {k * CleanupIntervalMs + d : k \in 1..(MaxPeriods + 1), d \in {0, 1}}

CacheKeys == {generateCacheKey(r) : r \in RewriteInputs}

CacheValues ==
    {[NoResult EXCEPT !.rewrittenText = t, !.model = DefaultModel] :
        t \in {<<"update">>, <<"ok">>}}

TtlChoices == {300, CacheTtlSeconds}

SetOp(key, data, ttlSeconds) ==
    /\ cache' = CacheSet(cache, key, data, ttlSeconds, now)
    /\ shadow' = MapSet(shadow, key, [at |-> now, ttl |-> ttlSeconds, data |-> data])
    /\ UNCHANGED lastGet

GetOp(key) ==
    /\ LET got == CacheGet(cache, key, now)
       IN  /\ cache' = got.cache
           /\ lastGet' = [valid |-> TRUE, key |-> key, hit |-> got.hit, data |-> got.data,
                          at |-> now, known |-> key \in DOMAIN shadow,
                          ins |-> IF key \in DOMAIN shadow THEN shadow[key] ELSE NoInsert]
    /\ UNCHANGED shadow

DeleteOp(key) ==
    /\ cache' = MapDelete(cache, key)
    /\ shadow' = MapDelete(shadow, key)
    /\ UNCHANGED lastGet

ClearOp ==
    /\ cache' = EmptyMap
    /\ shadow' = EmptyMap
    /\ UNCHANGED lastGet

(* the setInterval callback: not before the first interval has passed *)
CleanupOp ==
    /\ now >= CleanupIntervalMs
    /\ cache' = CacheCleanup(cache, now)
    /\ UNCHANGED <<shadow, lastGet>>

CacheOps ==
    \/ \E k \in CacheKeys, v \in CacheValues, ttl \in TtlChoices : SetOp(k, v, ttl)
    \/ \E k \in CacheKeys : GetOp(k)
    \/ \E k \in CacheKeys : DeleteOp(k)
    \/ ClearOp
    \/ CleanupOp

NextCache ==
    \/ /\ CacheOps
       /\ UNCHANGED <<now, monthYear, usageCache, lastCacheClean, pc, req, loc, held, resp,
                      hist, usage0, tone, keyed>>
    \/ Tick(CacheInstants) /\ UNCHANGED obs

SpecCache == Init /\ [][NextCache]_vars


-----------------------------------------------------------------------------
(* MeteringService on its own: concurrent direct calls of checkQuota and
   recordUsage for one user, starting from a month's record as earlier
   recordUsage calls can have left it (or from none) *)

MeterUser == "dev-user-123"

MeterModels == {"gpt-3.5-turbo", "gpt-4", "gpt-4-turbo"}

TierArgs == Tiers \cup {Undefined}

RecordTokens == {50, 70}

(* the record after `times` more recordUsage(userId, model, tokensUsed) calls *)
RecordTimes(usage, model, tokensUsed, times) ==
    [usage EXCEPT !.rewritesCount = @ + times,
                  !.tokensUsed = @ + times * tokensUsed,
                  !.costUSD = @ + times * calculateCost(model, tokensUsed, 0, 0)]

(* A record with the given tier, n >= 20 rewrites and accumulated cost c, as
   recordUsage calls build it: claude-3-haiku calls of 10^8 tokens, one of a
   multiple of 5 tokens (13 units per 5 tokens), fewer than 13 of 1 token
   (1 unit each), and calls of 0 tokens for the rest of the count *)
ChunkTokens == 100 * 1000 * 1000

SeedUsage(tier, n, c) ==
    LET chunkCost == calculateCost("claude-3-haiku", ChunkTokens, 0, 0)
        a == c \div chunkCost
        b == (c % chunkCost) \div 13
        r == (c % chunkCost) % 13
        u0 == [loadUsageFromDB(MeterUser, 1) EXCEPT !.tier = tier]
        u1 == RecordTimes(u0, "claude-3-haiku", ChunkTokens, a)
        u2 == RecordTimes(u1, "claude-3-haiku", 5 * b, 1)
        u3 == RecordTimes(u2, "claude-3-haiku", 1, r)
    IN  RecordTimes(u3, DefaultModel, 0, n - a - 1 - r)

(* below the rewrite cap, with a cost that the estimate for one of the
   tier's priced models brings exactly to the budget, and one unit past it *)
EstimateSeeds ==
    UNION {{SeedUsage(t, TIER_LIMITS(t).monthlyRewrites - 1,
                      TIER_LIMITS(t).monthlyBudgetUSD
                         - estimateRequestCost(m, EstimatedTokens) + d) :
               m \in MeterModels \cap TIER_LIMITS(t).modelAccess \cap PricedModels,
               d \in {0, 1}} : t \in Tiers}

(* counts and costs at and next to the limits of the record's tier, and the
   record as checkQuota creates it, and the costs next to the estimate *)
SeedRecords ==
    UNION {{SeedUsage(t, n, c) :
               n \in {TIER_LIMITS(t).monthlyRewrites - 1, TIER_LIMITS(t).monthlyRewrites},
               c \in {0, TIER_LIMITS(t).monthlyBudgetUSD - 1,
                      TIER_LIMITS(t).monthlyBudgetUSD}} : t \in Tiers}
    \cup {[loadUsageFromDB(MeterUser, 1) EXCEPT !.tier = t] : t \in Tiers}
    \cup EstimateSeeds

InitMeter ==
    /\ InitServices
    /\ usageCache \in
          {EmptyMap} \cup {[k \in {UsageKey(MeterUser, 1)} |-> u] : u \in SeedRecords}
    /\ usage0 = usageCache
    /\ InitHandlers
    /\ InitIdle

Meter ==
    \/ \E p \in Procs, m \in MeterModels, t \in TierArgs :
          InOrder(p) /\ CallCheckQuota(p, MeterUser, m, t)
    \/ \E p \in Procs, m \in MeterModels, n \in RecordTokens :
          InOrder(p) /\ CallRecordUsage(p, MeterUser, m, n)
    \/ \E p \in Procs : QuotaStart(p)
    \/ \E p \in Procs, readFails \in BOOLEAN : QuotaLoaded(p, readFails)
    \/ \E p \in Procs : QuotaDecide(p)
    \/ \E p \in Procs : RecordStart(p)
    \/ \E p \in Procs, readFails \in BOOLEAN : RecordLoaded(p, readFails)

NextMeter == Meter /\ UNCHANGED obs

SpecMeter == InitMeter /\ [][NextMeter]_vars


-----------------------------------------------------------------------------
(* MeteringService across a change of the calendar month: calls of
   checkQuota, recordUsage and getUserUsage for one user, while the clock
   runs past the hourly cleanCache and into the next month *)

MonthInstants == {0} \cup {k * HourMs + d : k \in 1..MaxMonth, d \in {0, 1}}

(* nothing cached, or the first month's record: a free-tier record after two
   rewrites, or one at its rewrite cap *)
MonthRecords ==
    {RecordTimes([loadUsageFromDB(MeterUser, 1) EXCEPT !.tier = "free"], DefaultModel, 50, 2),
     SeedUsage("free", FreeMonthlyRewrites, 0)}

InitMonth ==
    /\ InitServices
    /\ usageCache \in
          {EmptyMap} \cup {[k \in {UsageKey(MeterUser, 1)} |-> u] : u \in MonthRecords}
    /\ usage0 = usageCache
    /\ InitHandlers
    /\ InitIdle

Month ==
    \/ \E p \in Procs, t \in {Undefined, "premium"} :
          InOrder(p) /\ CallCheckQuota(p, MeterUser, DefaultModel, t)
    \/ \E p \in Procs : InOrder(p) /\ CallRecordUsage(p, MeterUser, DefaultModel, 50)
    \/ \E p \in Procs : InOrder(p) /\ CallGetUserUsage(p, MeterUser, Undefined)
    \/ \E p \in Procs : QuotaStart(p)
    \/ \E p \in Procs, readFails \in BOOLEAN : QuotaLoaded(p, readFails)
    \/ \E p \in Procs : QuotaDecide(p)
    \/ \E p \in Procs : RecordStart(p)
    \/ \E p \in Procs : RecordLoaded(p, FALSE)
    \/ Busy /\ Tick(MonthInstants)
    \/ Busy /\ MonthTurn(MonthInstants)

NextMonth == Month /\ UNCHANGED obs

SpecMonth == InitMonth /\ [][NextMonth]_vars

-----------------------------------------------------------------------------
(* The slider functions on their own: normalizeSliderValue and
   mapWeightToInstruction on a pair of dial values, resolveSliderConflicts
   and generatePrompt on a dial map *)

DialInputs == (SliderMin - 10)..(SliderMax + 10)

(* dial values on both sides of the breakpoints, and fewer of them for the
   map of five dials *)
DialChoices(n) ==
    IF n < 5 THEN {30, 45, 46, 50, 54, 55, 80, 85} ELSE {30, 54, 55, 80, 85}

(* the dial ids of a request, in the order they were written *)
DimensionSeqs ==
    {<<>>,
     <<"formality">>,
     <<"formality", "conversational", "informativeness", "authoritativeness">>,
     <<"authoritativeness", "informativeness", "conversational", "formality">>,
     <<"formality", "conversational", "informativeness", "authoritativeness", "humor">>}

SliderMaps ==
    UNION {{[i \in 1..Len(ds) |-> [dimension |-> ds[i], value |-> vs[i]]] :
               vs \in [1..Len(ds) -> DialChoices(Len(ds))]} : ds \in DimensionSeqs}

ScenarioText == <<"Thanks", " ", "for", " ", "the", " ", "update">>

ToneInputs ==
    {[NoTone EXCEPT !.fn = "normalize", !.value = v, !.other = o] :
        v \in DialInputs, o \in DialInputs}
    \cup {[NoTone EXCEPT !.fn = "resolve", !.sliderValues = sv, !.guardrails = g,
                         !.originalText = ScenarioText] :
             sv \in SliderMaps, g \in {NoGuardrails, Guarded}}

InitTone ==
    /\ InitRest
    /\ tone \in ToneInputs
    /\ keyed = NoKeyed

NormalizeOp ==
    /\ tone.fn = "normalize" /\ tone.stage = 0
    /\ tone' = [tone EXCEPT !.stage = 1,
                            !.weight = normalizeSliderValue(tone.value),
                            !.otherWeight = normalizeSliderValue(tone.other),
                            !.instruction =
                                mapWeightToInstruction(normalizeSliderValue(tone.value))]

ResolveOp ==
    /\ tone.fn = "resolve" /\ tone.stage = 0
    /\ tone' = [tone EXCEPT !.stage = 1,
                            !.conflicts = resolveSliderConflicts(tone.sliderValues)]

PromptOp ==
    /\ tone.fn = "resolve" /\ tone.stage = 1
    /\ tone' = [tone EXCEPT !.stage = 2,
                            !.prompt = generatePrompt(tone.originalText, tone.conflicts,
                                                      tone.guardrails)]

NextTone ==
    /\ \/ NormalizeOp
       \/ ResolveOp
       \/ PromptOp
    /\ UNCHANGED <<now, monthYear, cache, usageCache, lastCacheClean, pc, req, loc, held,
                   resp, hist, usage0, shadow, lastGet, keyed>>

SpecTone == InitTone /\ [][NextTone]_vars

-----------------------------------------------------------------------------
(* generateCacheKey on pairs of requests, and the cache under the keys *)

KeyTexts ==
    {<<"update">>, <<"Update">>, <<" ", "update", " ">>, <<"update", " ", "ok">>,
     <<"update", " ", " ", "ok">>, <<"ok">>}

KeySliders ==
    {<<[dimension |-> "formality", value |-> 80],
       [dimension |-> "conversational", value |-> 30]>>,
     <<[dimension |-> "conversational", value |-> 30],
       [dimension |-> "formality", value |-> 80]>>,
     <<[dimension |-> "formality", value |-> 80],
       [dimension |-> "conversational", value |-> 45]>>,
     <<[dimension |-> "formality", value |-> 80]>>}

KeyTerms == {<<>>, <<"ok">>, <<"ok", "bad">>, <<"bad", "ok">>}

KeyModels == {Undefined, "gpt-3.5-turbo", "gpt-4"}

KeyRequests ==
    {[NoReq EXCEPT !.kind = "rewrite", !.userId = "dev-user-123", !.model = m,
                   !.originalText = t, !.sliderValues = sv,
                   !.guardrails = [required |-> rq, banned |-> bn]] :
        t \in KeyTexts, sv \in KeySliders, rq \in KeyTerms, bn \in KeyTerms,
        m \in KeyModels}

KeyBases ==
    {r \in KeyRequests :
        /\ r.sliderValues[1].dimension = "formality" /\ Len(r.sliderValues) = 2
        /\ r.sliderValues[2].value = 30
        /\ r.guardrails = [required |-> <<"ok", "bad">>, banned |-> <<"bad", "ok">>]
        /\ r.originalText \in {<<"update">>, <<"update", " ", "ok">>}
        /\ r.model \in {Undefined, "gpt-4"}}

(* the response the handler stores for a request *)
StoredFor(request) ==
    [NoResult EXCEPT !.rewrittenText = <<"ok">>,
                     !.originalText = request.originalText,
                     !.model = ModelOf(request),
                     !.tokensUsed = 50]

InitKey ==
    /\ InitRest
    /\ tone = NoTone
    /\ \E a \in KeyBases, b \in KeyRequests :
           keyed = [NoKeyed EXCEPT !.a = a, !.b = b]

FingerprintOp ==
    /\ keyed.stage = 0
    /\ keyed' = [keyed EXCEPT !.stage = 1,
                              !.keyA = generateCacheKey(keyed.a),
                              !.keyB = generateCacheKey(keyed.b)]
    /\ UNCHANGED <<now, cache>>

(* cacheService.set(cacheKey, responseData, 600) for the first request *)
StoreOp ==
    /\ keyed.stage = 1
    /\ cache' = CacheSet(cache, keyed.keyA, StoredFor(keyed.a), CacheTtlSeconds, now)
    /\ keyed' = [keyed EXCEPT !.stage = 2]
    /\ UNCHANGED now

(* cacheService.get(cacheKey) for the second request *)
LookupOp ==
    /\ keyed.stage = 2
    /\ LET got == CacheGet(cache, keyed.keyB, now)
       IN  /\ cache' = got.cache
           /\ keyed' = [keyed EXCEPT !.stage = 3, !.hit = got.hit, !.data = got.data]
    /\ UNCHANGED now

KeyTick ==
    /\ keyed.stage = 2
    /\ \E t \in PipelineInstants : t > now /\ now' = t
    /\ UNCHANGED <<cache, keyed>>

NextKey ==
    /\ \/ FingerprintOp
       \/ StoreOp
       \/ LookupOp
       \/ KeyTick
    /\ UNCHANGED <<monthYear, usageCache, lastCacheClean, pc, req, loc, held,
                   resp, hist, usage0, shadow, lastGet, tone>>

SpecKey == InitKey /\ [][NextKey]_vars

-----------------------------------------------------------------------------
(* validateGuardrails and generateCacheKey on two requests with the same
   text whose guardrail lists may repeat a term, against one candidate
   rewrite *)

GuardOriginals == {<<"update">>, <<"Update", " ", "bad">>, <<"ok">>}

GuardCandidates == {<<"update">>, <<"ok">>, <<"Update", " ", "bad">>, <<"bad">>}

GuardTerms ==
    {<<>>, <<"update">>, <<"update", "update">>, <<"bad">>, <<"b.d">>, <<"ok", "bad">>}

GuardRequests(t) ==
    {[NoReq EXCEPT !.kind = "rewrite", !.userId = "dev-user-123",
                   !.originalText = t, !.sliderValues = Sliders,
                   !.guardrails = [required |-> rq, banned |-> bn]] :
        rq \in GuardTerms, bn \in GuardTerms}

InitGuard ==
    /\ InitRest
    /\ tone = NoTone
    /\ \E t \in GuardOriginals, c \in GuardCandidates :
          \E a \in GuardRequests(t), b \in GuardRequests(t) :
             keyed = [NoKeyed EXCEPT !.a = a, !.b = b, !.candidate = c]

ValidateOp ==
    /\ keyed.stage = 0
    /\ keyed' = [keyed EXCEPT
                   !.stage = 1,
                   !.violationsA = validateGuardrails(keyed.a.originalText, keyed.candidate,
                                                      keyed.a.guardrails),
                   !.violationsB = validateGuardrails(keyed.b.originalText, keyed.candidate,
                                                      keyed.b.guardrails)]

GuardKeyOp ==
    /\ keyed.stage = 1
    /\ keyed' = [keyed EXCEPT !.stage = 2,
                              !.keyA = generateCacheKey(keyed.a),
                              !.keyB = generateCacheKey(keyed.b)]

NextGuard ==
    /\ \/ ValidateOp
       \/ GuardKeyOp
    /\ UNCHANGED <<now, monthYear, cache, usageCache, lastCacheClean, pc, req, loc, held,
                   resp, hist, usage0, shadow, lastGet, tone>>

SpecGuard == InitGuard /\ [][NextGuard]_vars

-----------------------------------------------------------------------------
(* Properties *)

RECURSIVE SumTokens(_)
SumTokens(S) ==
    IF S = {} THEN 0
    ELSE LET p == CHOOSE q \in S : TRUE IN req[p].tokens + SumTokens(S \ {p})

FreshResponse(p) ==
    req[p].kind = "rewrite" /\ pc[p] = "done" /\ resp[p].status = "ok" /\ ~loc[p].cacheHit

(* C1: on a cache miss, a request whose checkQuota result has canProceed =
   FALSE makes no provider call, records no usage, writes no cache entry and
   ends with the quota_exceeded answer. *)
C1_DeniedRequestIsRejected ==
    \A p \in Procs :
        (req[p].kind = "rewrite" /\ hist[p].quota.called /\ ~hist[p].quota.canProceed)
        => /\ hist[p].providerCalls = 0
           /\ hist[p].recordCalls = 0
           /\ hist[p].cacheWrites = 0
           /\ pc[p] = "done"
           /\ resp[p].status = "quota_exceeded"

(* C2: once N concurrent recordUsage calls of one user in one month have all
   completed (no read having failed), the month's record exists and its
   rewritesCount has grown by N and its tokensUsed by the sum of the calls'
   token counts, whether or not the record was in the map at the start. *)
C2_NoLostUpdate ==
    (\A p \in Procs : pc[p] = "done" /\ req[p].kind = "recordUsage" /\ ~hist[p].readFailed)
    => LET key == UsageKey(MeterUser, monthYear)
           base == IF key \in DOMAIN usage0 THEN usage0[key]
                   ELSE loadUsageFromDB(MeterUser, monthYear)
       IN  /\ key \in DOMAIN usageCache
           /\ usageCache[key].rewritesCount = base.rewritesCount + NumReq
           /\ usageCache[key].tokensUsed = base.tokensUsed + SumTokens(Procs)

(* C3: when the retry ran, the tokens and the cost added to the user's
   monthly record are those of the first provider call plus those of the
   retry. *)
C3_RetryTokensRecorded ==
    (FreshResponse(1) /\ loc[1].retried)
    => LET key == UsageKey(UserOf(req[1]), monthYear)
           model == ModelOf(req[1])
           t1 == loc[1].llmResponse.tokensUsed
           t2 == loc[1].retryResponse.tokensUsed
       IN  /\ key \in DOMAIN usageCache
           /\ usageCache[key].tokensUsed = t1 + t2
           /\ usageCache[key].costUSD =
                 calculateCost(model, t1, 0, 0) + calculateCost(model, t2, 0, 0)

(* C4: a request makes at most two provider calls, the second only when the
   first answer has at least one violation; the text returned is the retry's
   only if the retry has strictly fewer violations than the first answer,
   and otherwise the first answer's. *)
C4_RetryAtMostOnce ==
    /\ hist[1].providerCalls <= 2
    /\ hist[1].providerCalls = 2 =>
          Len(validateGuardrails(req[1].originalText, loc[1].llmResponse.text,
                                 req[1].guardrails)) > 0
    /\ loc[1].retried => hist[1].providerCalls = 2
    /\ FreshResponse(1) =>
          resp[1].data.rewrittenText =
             IF loc[1].retried
                /\ Len(validateGuardrails(req[1].originalText, loc[1].retryResponse.text,
                                          req[1].guardrails))
                   < Len(validateGuardrails(req[1].originalText, loc[1].llmResponse.text,
                                            req[1].guardrails))
             THEN loc[1].retryResponse.text
             ELSE loc[1].llmResponse.text

(* C4 witness: the retry ran, had as many violations as the first answer,
   was a different text, and the first answer's text was returned. *)
C4_Witness ==
    /\ FreshResponse(1)
    /\ loc[1].retried
    /\ Len(loc[1].retryViolations) = Len(loc[1].violations)
    /\ loc[1].retryResponse.text # loc[1].llmResponse.text
    /\ resp[1].data.rewrittenText = loc[1].llmResponse.text

(* C5: the violations returned with a successful response are those of the
   text returned (none listed when that text has none). *)
C5_ViolationsOfReturnedText ==
    FreshResponse(1)
    => resp[1].data.guardrailViolations =
          validateGuardrails(req[1].originalText, resp[1].data.rewrittenText,
                             req[1].guardrails)


(* C6: a cache hit ends the request at once: no checkQuota, provider call,
   recordUsage or cache write is made for it, the usage records and the
   cache are left as they were, and the answer is the stored result with
   processingTime replaced by this request's elapsed time; a lookup made
   while the entry is within its lifetime is such a hit. *)
C6_CacheHitShortCircuits ==
    /\ [](\A p \in Procs :
            loc[p].cacheHit =>
               /\ pc[p] = "done"
               /\ resp[p].status = "ok"
               /\ hist[p] = NoHist
               /\ resp[p].data = [loc[p].cached EXCEPT
                                    !.processingTime = resp[p].data.processingTime])
    /\ [][\A p \in Procs :
            (/\ pc[p] = "lookup"
             /\ pc'[p] # "lookup"
             /\ loc[p].cacheKey \in DOMAIN cache
             /\ now < cache[loc[p].cacheKey].expiry)
            => /\ loc'[p].cacheHit
               /\ loc'[p].cached = cache[loc[p].cacheKey].data
               /\ resp'[p].data.processingTime = now - loc[p].startTime
               /\ usageCache' = usageCache
               /\ cache' = cache]_vars

(* C6 witness: a request was answered from the entry another request
   stored, with a processing time of its own. *)
C6_Witness ==
    \E p, q \in Procs :
        /\ p # q
        /\ hist[q].cacheWrites = 1
        /\ loc[p].cacheHit
        /\ loc[p].cached = resp[q].data
        /\ resp[p].data.processingTime # loc[p].cached.processingTime

(* C7 as claimed: get right after set returns the value, and a get made when
   ttl seconds or more have passed since the set returns absent. *)
C7_AbsentOnceTtlElapsed ==
    (lastGet.valid /\ lastGet.known)
    => /\ lastGet.at = lastGet.ins.at => (lastGet.hit /\ lastGet.data = lastGet.ins.data)
       /\ lastGet.at >= lastGet.ins.at + lastGet.ins.ttl * 1000 => ~lastGet.hit

(* C7 as amended: get returns the value last set for the key exactly when
   the key was set, not deleted or cleared since, and at most ttl seconds
   have passed since the set; it returns absent once MORE than ttl seconds
   have passed (at the expiry instant itself the entry is still returned). *)
C7_AbsentAfterExpiry ==
    lastGet.valid
    => /\ lastGet.hit <=> (/\ lastGet.known
                           /\ lastGet.at <= lastGet.ins.at + lastGet.ins.ttl * 1000)
       /\ lastGet.hit => lastGet.data = lastGet.ins.data

(* C7 witness: a get at the very expiry instant of an entry returned it. *)
C7_Witness ==
    /\ lastGet.valid
    /\ lastGet.known
    /\ lastGet.at = lastGet.ins.at + lastGet.ins.ttl * 1000
    /\ lastGet.hit
    /\ lastGet.data = lastGet.ins.data

DecidedQuota(p) ==
    /\ req[p].kind = "checkQuota"
    /\ pc[p] = "done"
    /\ resp[p].quota.called
    /\ resp[p].quota.reason # "unable_to_verify"

(* C8: when reading the usage state fails inside checkQuota, the result is
   allow for a premium or enterprise caller and deny for a free-tier caller,
   a caller with no tier argument counting as free tier. *)
C8_FailClosedForFree ==
    \A p \in Procs :
        (/\ req[p].kind = "checkQuota"
         /\ pc[p] = "done"
         /\ resp[p].quota.reason = "unable_to_verify")
        => resp[p].quota.canProceed = (TierOrFree(req[p].tier) \in {"premium", "enterprise"})

(* C9 as claimed: with the model allowed and the accumulated cost below the
   budget, checkQuota denies at or above the monthly rewrite cap and allows
   one below it. *)
C9_CapBoundary ==
    \A p \in Procs :
        LET q == resp[p].quota
            limits == TIER_LIMITS(q.usage.tier)
        IN  (/\ DecidedQuota(p)
             /\ q.model \in limits.modelAccess
             /\ q.usage.costUSD < limits.monthlyBudgetUSD)
            => /\ q.usage.rewritesCount >= limits.monthlyRewrites => ~q.canProceed
               /\ q.usage.rewritesCount = limits.monthlyRewrites - 1 => q.canProceed

(* C9 as amended: with the model allowed, checkQuota denies at or above the
   monthly rewrite cap; one below the cap it allows provided the accumulated
   cost is below the budget and the cost plus the 2000-token estimate does
   not exceed the budget. *)
C9_CapBoundaryWithinBudget ==
    \A p \in Procs :
        LET q == resp[p].quota
            limits == TIER_LIMITS(q.usage.tier)
        IN  (DecidedQuota(p) /\ q.model \in limits.modelAccess)
            => /\ q.usage.rewritesCount >= limits.monthlyRewrites => ~q.canProceed
               /\ (/\ q.usage.rewritesCount = limits.monthlyRewrites - 1
                   /\ q.usage.costUSD < limits.monthlyBudgetUSD
                   /\ q.usage.costUSD + estimateRequestCost(q.model, EstimatedTokens)
                         <= limits.monthlyBudgetUSD)
                  => q.canProceed

(* C9 witness: a check one below the cap was allowed. *)
C9_Witness ==
    \E p \in Procs :
        /\ DecidedQuota(p)
        /\ resp[p].quota.usage.rewritesCount
              = TIER_LIMITS(resp[p].quota.usage.tier).monthlyRewrites - 1
        /\ resp[p].quota.canProceed

(* C10: for a free-tier record and a model outside the free tier's model
   set, checkQuota denies with the model-access reason whatever the rewrite
   count and the accumulated cost are. *)
C10_ModelAccessFirst ==
    \A p \in Procs :
        LET q == resp[p].quota
        IN  (/\ DecidedQuota(p)
             /\ q.usage.tier = "free"
             /\ q.model # "gpt-3.5-turbo")
            => (~q.canProceed /\ q.reason = "model_access")

(* C10 witness: such a denial for a record at its rewrite cap and at its
   budget. *)
C10_Witness ==
    \E p \in Procs :
        LET q == resp[p].quota
        IN  /\ DecidedQuota(p)
            /\ q.usage.tier = "free"
            /\ q.model = "gpt-4"
            /\ q.usage.rewritesCount >= FreeMonthlyRewrites
            /\ q.usage.costUSD >= FreeBudgetUSD * UnitsPerDollar
            /\ q.reason = "model_access"


(* the estimate the claim names: a 2000-token request is 1200 input and 800
   output tokens at the model's prices; a model with no price entry has no
   estimated cost *)
ClaimedEstimate(model) ==
    IF model \in PricedModels
    THEN 1200 * MODEL_PRICING(model).inputTokenCost + 800 * MODEL_PRICING(model).outputTokenCost
    ELSE 0

BelowCapAllowedModel(p) ==
    /\ DecidedQuota(p)
    /\ resp[p].quota.model \in TIER_LIMITS(resp[p].quota.usage.tier).modelAccess
    /\ resp[p].quota.usage.rewritesCount
          < TIER_LIMITS(resp[p].quota.usage.tier).monthlyRewrites

(* C11: with the model allowed and the rewrite count below the cap,
   checkQuota denies when the accumulated cost is at or above the monthly
   budget, denies when the accumulated cost plus the 2000-token estimate is
   strictly above the budget, and allows otherwise (cost plus estimate
   exactly at the budget is allowed). *)
C11_BudgetBoundaries ==
    \A p \in Procs :
        LET q == resp[p].quota
            budget == TIER_LIMITS(q.usage.tier).monthlyBudgetUSD
        IN  BelowCapAllowedModel(p)
            => /\ q.usage.costUSD >= budget => ~q.canProceed
               /\ q.usage.costUSD + ClaimedEstimate(q.model) > budget => ~q.canProceed
               /\ (/\ q.usage.costUSD < budget
                   /\ q.usage.costUSD + ClaimedEstimate(q.model) <= budget) => q.canProceed

(* C11 witness: a check whose cost plus a non-zero estimate is exactly the
   budget was allowed. *)
C11_Witness ==
    \E p \in Procs :
        LET q == resp[p].quota
        IN  /\ BelowCapAllowedModel(p)
            /\ ClaimedEstimate(q.model) > 0
            /\ q.usage.costUSD + ClaimedEstimate(q.model)
                  = TIER_LIMITS(q.usage.tier).monthlyBudgetUSD
            /\ q.canProceed

(* C12: every usage record is stored under its own user and month; a call
   works on the record of the month in which it read the clock, and what
   checkQuota decides on and getUserUsage reports is that month's record; a
   record that enters the map starts from zero (or, entered by recordUsage,
   from zero plus that one call), whatever an earlier month's record holds. *)
C12_MonthRollover ==
    /\ [](\A k \in DOMAIN usageCache :
             usageCache[k].userId = k[1] /\ usageCache[k].monthYear = k[2])
    /\ [](\A p \in Procs :
             /\ held[p].kind # "none" => held[p].key[2] = hist[p].month
             /\ DecidedQuota(p) => resp[p].quota.usage.monthYear = hist[p].month
             /\ (req[p].kind = "getUserUsage" /\ resp[p].status = "returned")
                   => resp[p].report.usage.monthYear = hist[p].month)
    /\ [][\A k \in (DOMAIN usageCache') \ (DOMAIN usageCache) :
             LET u == usageCache'[k]
             IN  \/ u.rewritesCount = 0 /\ u.tokensUsed = 0 /\ u.costUSD = 0
                 \/ \E p \in Procs :
                       /\ pc[p] = "recordLoad" /\ pc'[p] = "done"
                       /\ u = AddUsage(loadUsageFromDB(k[1], k[2]), TokensToRecord(p),
                                       calculateCost(ModelOf(req[p]), TokensToRecord(p), 0, 0))
          ]_vars

(* C12 witness: with the first month's record at its rewrite cap, a
   checkQuota made in the second month decided on a second-month record with
   no rewrites and allowed the request. *)
C12_Witness ==
    \E p \in Procs :
        /\ UsageKey(MeterUser, 1) \in DOMAIN usage0
        /\ usage0[UsageKey(MeterUser, 1)].rewritesCount >= FreeMonthlyRewrites
        /\ DecidedQuota(p)
        /\ hist[p].month = 2
        /\ resp[p].quota.usage.monthYear = 2
        /\ resp[p].quota.usage.rewritesCount = 0
        /\ resp[p].quota.canProceed

(* C13: the three counters of every usage record are never negative, and as
   long as the record of a (user, month) is in the map none of them
   decreases. *)
C13_CountersMonotone ==
    /\ [](\A k \in DOMAIN usageCache :
             /\ usageCache[k].rewritesCount >= 0
             /\ usageCache[k].tokensUsed >= 0
             /\ usageCache[k].costUSD >= 0)
    /\ [][\A k \in (DOMAIN usageCache) \cap (DOMAIN usageCache') :
             /\ usageCache'[k].rewritesCount >= usageCache[k].rewritesCount
             /\ usageCache'[k].tokensUsed >= usageCache[k].tokensUsed
             /\ usageCache'[k].costUSD >= usageCache[k].costUSD]_vars

Resolved == tone.fn = "resolve" /\ tone.stage >= 1
Ranked == tone.conflicts.primary \o tone.conflicts.secondary
Strength(w) == Abs(w.weight)

(* the place of a dial id in the request's dial map *)
PlaceOf(d) == CHOOSE i \in 1..Len(tone.sliderValues) : tone.sliderValues[i].dimension = d

(* C14: resolveSliderConflicts returns at most 3 primary entries, every
   primary entry is at least as strong as every secondary entry, and
   secondary is non-empty only if primary has exactly 3 entries. *)
C14_PrimaryCapped ==
    Resolved
    => /\ Len(tone.conflicts.primary) <= 3
       /\ \A i \in 1..Len(tone.conflicts.primary), j \in 1..Len(tone.conflicts.secondary) :
             Strength(tone.conflicts.primary[i]) >= Strength(tone.conflicts.secondary[j])
       /\ Len(tone.conflicts.secondary) > 0 => Len(tone.conflicts.primary) = 3

(* C14 witness: five dials all away from neutral gave three primary and two
   secondary entries. *)
C14_Witness ==
    /\ Resolved
    /\ Len(tone.sliderValues) = 5
    /\ Len(tone.conflicts.primary) = 3
    /\ Len(tone.conflicts.secondary) = 2

(* C15: the dials with a value from 46 to 54 (|weight| <= 0.1) are in
   neither list and every other dial is in exactly one place of primary
   followed by secondary, with its weight; that sequence is in descending
   order of |weight|, dials of equal |weight| in the order of the request. *)
C15_NeutralExcludedStableOrder ==
    Resolved
    => /\ \A i \in 1..Len(tone.sliderValues) :
             LET e == tone.sliderValues[i]
                 at == {j \in 1..Len(Ranked) : Ranked[j].dimension = e.dimension}
             IN  IF e.value >= 46 /\ e.value <= 54
                 THEN at = {}
                 ELSE /\ Cardinality(at) = 1
                      /\ \A j \in at : Ranked[j].weight = e.value - 50
       /\ \A j \in 1..Len(Ranked) :
             \E i \in 1..Len(tone.sliderValues) :
                tone.sliderValues[i].dimension = Ranked[j].dimension
       /\ \A i, j \in 1..Len(Ranked) :
             i < j => /\ Strength(Ranked[i]) >= Strength(Ranked[j])
                      /\ Strength(Ranked[i]) = Strength(Ranked[j])
                            => PlaceOf(Ranked[i].dimension) < PlaceOf(Ranked[j].dimension)

(* C15 witness: a request with a near-neutral dial and two dials of equal
   strength on opposite sides, listed with the earlier dial first. *)
C15_Witness ==
    /\ Resolved
    /\ Len(Ranked) < Len(tone.sliderValues)
    /\ \E i, j \in 1..Len(Ranked) :
          /\ i < j
          /\ Ranked[i].weight = -Ranked[j].weight
          /\ PlaceOf(Ranked[i].dimension) < PlaceOf(Ranked[j].dimension)

ScenarioA ==
    /\ tone.fn = "resolve"
    /\ tone.stage = 2
    /\ tone.originalText = ScenarioText
    /\ tone.sliderValues = <<[dimension |-> "formality", value |-> 80],
                             [dimension |-> "conversational", value |-> 30],
                             [dimension |-> "informativeness", value |-> 50],
                             [dimension |-> "authoritativeness", value |-> 85]>>
    /\ tone.guardrails = NoGuardrails

HasBlock(name) == \E i \in 1..Len(tone.prompt) : tone.prompt[i].block = name

(* C16 as claimed: scenario A resolves to primary = authoritativeness high,
   formality high and secondary = conversational low, and its prompt has a
   PRIMARY and a SECONDARY block and no required or banned block. *)
C16_ScenarioAsClaimed ==
    ScenarioA
    => /\ ToneLines(tone.conflicts.primary)
             = << <<"authoritativeness", "high">>, <<"formality", "high">> >>
       /\ ToneLines(tone.conflicts.secondary) = << <<"conversational", "low">> >>
       /\ HasBlock("PRIMARY TONE INSTRUCTIONS")
       /\ HasBlock("SECONDARY TONE ADJUSTMENTS")
       /\ ~HasBlock("REQUIRED WORDS/PHRASES")
       /\ ~HasBlock("BANNED WORDS/PHRASES")

(* C16 as amended: scenario A resolves to primary = authoritativeness very
   high, formality very high, conversational low, and an empty secondary;
   its prompt has a PRIMARY block and no SECONDARY, required or banned
   block. *)
C16_ScenarioA ==
    ScenarioA
    => /\ ToneLines(tone.conflicts.primary)
             = << <<"authoritativeness", "very high">>, <<"formality", "very high">>,
                  <<"conversational", "low">> >>
       /\ tone.conflicts.secondary = <<>>
       /\ HasBlock("PRIMARY TONE INSTRUCTIONS")
       /\ ~HasBlock("SECONDARY TONE ADJUSTMENTS")
       /\ ~HasBlock("REQUIRED WORDS/PHRASES")
       /\ ~HasBlock("BANNED WORDS/PHRASES")

(* C16 witness: the prompt of scenario A was assembled, with the source text
   in it. *)
C16_Witness ==
    /\ ScenarioA
    /\ \E i \in 1..Len(tone.prompt) :
          /\ tone.prompt[i].block = "ORIGINAL TEXT TO REWRITE"
          /\ tone.prompt[i].items = <<ScenarioText>>

Normalized == tone.fn = "normalize" /\ tone.stage = 1

(* C17: normalizeSliderValue(v) is (clamp(v, 10, 90) - 50) / 40: -1 at 10
   and below, 0 at 50, 1 at 90 and above, within [-1, 1], and never smaller
   for a larger v.  (Weights are held times 40.) *)
C17_NormalizeClampedMonotone ==
    Normalized
    => /\ tone.value <= 10 => tone.weight = -40
       /\ tone.value >= 90 => tone.weight = 40
       /\ (tone.value >= 10 /\ tone.value <= 90) => tone.weight = tone.value - 50
       /\ tone.value = 50 => tone.weight = 0
       /\ tone.weight >= -40 /\ tone.weight <= 40
       /\ tone.value <= tone.other => tone.weight <= tone.otherWeight

(* C17 witness: a value above the range was clamped to 90, next to a value
   below the range. *)
C17_Witness ==
    /\ Normalized
    /\ tone.value > 90
    /\ tone.weight = 40
    /\ tone.other < 10
    /\ tone.otherWeight = -40

(* C18: mapWeightToInstruction gives moderate for |w| <= 0.2, low or high
   (by sign) for 0.2 < |w| <= 0.5, very low or very high for |w| > 0.5;
   dials 42 and 58 give moderate, dial 30 gives low and dial 70 high.
   (|w| <= 1/5 is 5 * 40|w| <= 40.) *)
C18_BucketBoundaries ==
    Normalized
    => LET w == tone.weight
           level == tone.instruction
       IN  /\ 5 * Abs(w) <= 40 => level = "moderate"
           /\ (5 * Abs(w) > 40 /\ 2 * Abs(w) <= 40)
                 => level = (IF w < 0 THEN "low" ELSE "high")
           /\ 2 * Abs(w) > 40 => level = (IF w < 0 THEN "very low" ELSE "very high")
           /\ tone.value \in {42, 58} => level = "moderate"
           /\ tone.value = 30 => level = "low"
           /\ tone.value = 70 => level = "high"

(* C18 witness: dial 70, weight exactly 0.5, gave high. *)
C18_Witness ==
    /\ Normalized
    /\ tone.value = 70
    /\ tone.weight * 2 = 40
    /\ tone.instruction = "high"

-----------------------------------------------------------------------------
(* the relations between two requests, stated on the requests themselves *)

IsSpace(tok) == tok = " "

(* the text between its first and last non-blank position, lower-cased *)
CoreText(text) ==
    LET solid == {i \in 1..Len(text) : ~IsSpace(text[i])}
    IN  IF solid = {} THEN <<>>
        ELSE LET first == CHOOSE i \in solid : \A j \in solid : i <= j
                 last == CHOOSE i \in solid : \A j \in solid : j <= i
             IN  [i \in 1..(last - first + 1) |-> ToLower(text[first + i - 1])]

(* the words of the text, lower-cased, all blanks dropped *)
RECURSIVE WordsOf(_)
WordsOf(text) ==
    IF text = <<>> THEN <<>>
    ELSE IF IsSpace(Head(text)) THEN WordsOf(Tail(text))
    ELSE <<ToLower(Head(text))>> \o WordsOf(Tail(text))

Occurrences(x, list) == Cardinality({i \in 1..Len(list) : list[i] = x})

Reordered(s, t) ==
    /\ Len(s) = Len(t)
    /\ \A i \in 1..Len(s) : Occurrences(s[i], s) = Occurrences(s[i], t)

Members(list) == {list[i] : i \in 1..Len(list)}

SameDials(a, b) == Members(a.sliderValues) = Members(b.sliderValues)

SameListsAndModel(a, b) ==
    /\ Reordered(a.sliderValues, b.sliderValues)
    /\ Reordered(a.guardrails.required, b.guardrails.required)
    /\ Reordered(a.guardrails.banned, b.guardrails.banned)
    /\ ModelOf(a) = ModelOf(b)

(* a difference in one of the fields that is more than case, surrounding
   blanks, or order *)
Differ(a, b) ==
    \/ CoreText(a.originalText) # CoreText(b.originalText)
    \/ ~SameDials(a, b)
    \/ Members(a.guardrails.required) # Members(b.guardrails.required)
    \/ Members(a.guardrails.banned) # Members(b.guardrails.banned)
    \/ ModelOf(a) # ModelOf(b)

(* C19 as stated: two requests whose texts differ only in case and in
   whitespace anywhere in the text (the same words in the same order), whose
   guardrail lists and dial map differ only in order, and whose model is the
   same, get the same key. *)
C19_AnyWhitespaceSameKey ==
    (/\ keyed.stage >= 1
     /\ WordsOf(keyed.a.originalText) = WordsOf(keyed.b.originalText)
     /\ SameListsAndModel(keyed.a, keyed.b))
        => keyed.keyA = keyed.keyB

(* C19: two requests whose texts differ only in case and in leading or
   trailing whitespace, whose required and banned lists differ only in order,
   whose dial maps hold the same values under a different key order, and
   whose model is the same, get the same key. *)
C19_CanonicalSameKey ==
    (/\ keyed.stage >= 1
     /\ CoreText(keyed.a.originalText) = CoreText(keyed.b.originalText)
     /\ SameListsAndModel(keyed.a, keyed.b))
        => keyed.keyA = keyed.keyB

(* two requests that differ in the case or the surrounding blanks of the
   text, in the order of both guardrail lists and in dial order, keyed alike *)
C19_Witness ==
    /\ keyed.stage >= 1
    /\ keyed.a.originalText = <<"update">>
    /\ keyed.b.originalText \in {<<"Update">>, <<" ", "update", " ">>}
    /\ keyed.a.guardrails.required # keyed.b.guardrails.required
    /\ keyed.a.guardrails.banned # keyed.b.guardrails.banned
    /\ keyed.a.sliderValues # keyed.b.sliderValues
    /\ SameListsAndModel(keyed.a, keyed.b)
    /\ keyed.keyA = keyed.keyB

(* C20: two requests that differ in the text beyond case and surrounding
   whitespace, in a dial value or the set of dial ids, in the set of required
   terms, in the set of banned terms, or in the model get different keys; and
   a lookup under the second request's key that hits returns what was stored
   for a request with the same text, dials, guardrails and model. *)
C20_DifferentFieldDifferentKey ==
    /\ (keyed.stage >= 1 /\ Differ(keyed.a, keyed.b)) => keyed.keyA # keyed.keyB
    /\ (keyed.stage = 3 /\ keyed.hit)
           => /\ ~Differ(keyed.a, keyed.b)
              /\ keyed.data = StoredFor(keyed.a)

(* a lookup that missed for a request differing from the stored one in the
   model alone, while the entry was still fresh *)
C20_Witness ==
    /\ keyed.stage = 3
    /\ ~keyed.hit
    /\ now = 0
    /\ ModelOf(keyed.a) # ModelOf(keyed.b)
    /\ keyed.b = [keyed.a EXCEPT !.model = keyed.b.model]
    /\ keyed.keyA # keyed.keyB

(* a lookup that hit for a request written differently from the stored one *)
C20_HitWitness ==
    /\ keyed.stage = 3
    /\ keyed.hit
    /\ keyed.a # keyed.b
    /\ keyed.data.originalText = keyed.a.originalText

-----------------------------------------------------------------------------
(* guardrail lists *)

(* the list with each term kept where it first stands *)
RECURSIVE OnceEach(_)
OnceEach(list) ==
    IF list = <<>> THEN <<>>
    ELSE LET front == OnceEach(SubSeq(list, 1, Len(list) - 1))
             x == list[Len(list)]
         IN  IF x \in Members(front) THEN front ELSE front \o <<x>>

(* the term stands in the text, whatever the case *)
Occurs(term, text) == \E i \in 1..Len(text) : ToLower(text[i]) = ToLower(term)

(* how many violations of the kind name the term *)
Reported(violations, kind, term) ==
    Cardinality({i \in 1..Len(violations) :
                    violations[i] = [kind |-> kind, term |-> term]})

(* C21: a request whose required or banned list repeats a term gets the same
   cache key, and the same violations from validateGuardrails, as the
   request that lists each term once. *)
C21_DuplicatesCollapse ==
    (/\ keyed.stage = 2
     /\ keyed.b.guardrails.required = OnceEach(keyed.a.guardrails.required)
     /\ keyed.b.guardrails.banned = OnceEach(keyed.a.guardrails.banned))
        => /\ keyed.keyA = keyed.keyB
           /\ keyed.violationsA = keyed.violationsB

(* C22: with each term listed once, validateGuardrails reports one
   "removed" for each required term that stands in the original and not in
   the candidate and none for any other required term, one "present" for
   each banned term that stands in the candidate and none for any other
   banned term, and nothing else. *)
C22_ViolationsExact ==
    (/\ keyed.stage >= 1
     /\ keyed.a.guardrails.required = OnceEach(keyed.a.guardrails.required)
     /\ keyed.a.guardrails.banned = OnceEach(keyed.a.guardrails.banned))
        => LET required == Members(keyed.a.guardrails.required)
               banned == Members(keyed.a.guardrails.banned)
               removed == {t \in required : /\ Occurs(t, keyed.a.originalText)
                                            /\ ~Occurs(t, keyed.candidate)}
               present == {t \in banned : Occurs(t, keyed.candidate)}
           IN  /\ \A t \in required :
                     Reported(keyed.violationsA, "removed", t)
                        = IF t \in removed THEN 1 ELSE 0
               /\ \A t \in banned :
                     Reported(keyed.violationsA, "present", t)
                        = IF t \in present THEN 1 ELSE 0
               /\ Len(keyed.violationsA) = Cardinality(removed) + Cardinality(present)

-----------------------------------------------------------------------------
(* provider failures *)

(* C23: once a provider call of a request has failed (the first call or the
   retry), the request is finished with the 500 "rewrite_failed" answer and
   no result, it has written nothing to the cache, and the provider is not
   called for it again. *)
C23_ProviderFailureEndsRequest ==
    /\ [](\A p \in Procs :
             hist[p].providerFailed > 0
                => /\ pc[p] = "done"
                   /\ resp[p].status = "rewrite_failed"
                   /\ resp[p].code = 500
                   /\ resp[p].data = NoResult
                   /\ hist[p].cacheWrites = 0
                   /\ hist[p].providerFailed = 1)
    /\ [][\A p \in Procs :
             hist[p].providerFailed > 0
                => hist'[p].providerCalls = hist[p].providerCalls]_vars

(* the retry call failed, after a first answer that broke a guardrail *)
C23_Witness ==
    \E p \in Procs :
       /\ hist[p].providerFailed = 1
       /\ hist[p].providerCalls = 2
       /\ loc[p].violations # <<>>
       /\ resp[p].status = "rewrite_failed"

-----------------------------------------------------------------------------
(* cache faults *)

(* C24: a request whose cacheService.get or cacheService.set call failed
   does not end in an error answer on that account: it fails only if a
   provider call failed. *)
C24_CacheFaultIsMiss ==
    \A p \in Procs :
       (hist[p].cacheFault /\ pc[p] = "done")
          => (resp[p].status = "rewrite_failed" => hist[p].providerFailed > 0)

-----------------------------------------------------------------------------
(* duplicate provider calls *)

(* handler p is about to look up a key under which an unexpired entry lies *)
EntryInReach(p) ==
    /\ pc[p] = "lookup"
    /\ loc[p].cacheKey \in DOMAIN cache
    /\ now <= cache[loc[p].cacheKey].expiry

(* C25 as stated: of the requests with the same fingerprint that started
   within one lifetime of a cache entry, the provider is called for at most
   one. *)
C25_OneProviderCallPerFingerprint ==
    \A p, q \in Procs :
       (/\ p # q
        /\ pc[p] # "idle" /\ pc[q] # "idle"
        /\ loc[p].cacheKey = loc[q].cacheKey
        /\ loc[q].startTime - loc[p].startTime < CacheTtlMs
        /\ loc[p].startTime - loc[q].startTime < CacheTtlMs)
          => ~(hist[p].providerCalls > 0 /\ hist[q].providerCalls > 0)

(* C25: a request whose cache lookup runs while an entry stored under its
   fingerprint has not expired is answered with that entry and the provider
   is not called for it. *)
C25_LookupAfterStoreIsServed ==
    [][\A p \in Procs :
          (EntryInReach(p) /\ pc'[p] # "lookup")
             => /\ pc'[p] = "done"
                /\ resp'[p].status = "ok"
                /\ resp'[p].data.rewrittenText = cache[loc[p].cacheKey].data.rewrittenText
                /\ hist'[p].providerCalls = 0
                /\ hist'[p].quotaCalls = 0]_vars

(* one request was answered from the entry another request had stored *)
C25_Witness ==
    \E p, q \in Procs :
       /\ p # q
       /\ loc[p].cacheKey = loc[q].cacheKey
       /\ hist[q].cacheWrites = 1
       /\ hist[q].providerCalls > 0
       /\ loc[p].cacheHit
       /\ hist[p].providerCalls = 0
       /\ resp[p].status = "ok"

-----------------------------------------------------------------------------
(* quota check before the provider *)

(* C26: whenever the provider is called for a request (to POST /api/rewrite
   or for an item of POST /api/rewrite/batch), checkQuota has been called
   for that request before. *)
C26_QuotaBeforeProvider ==
    [][\A p \in Procs :
          hist'[p].providerCalls > hist[p].providerCalls
             => hist[p].quotaCalls > 0]_vars

-----------------------------------------------------------------------------
(* the tier of the call *)

(* C27: a checkQuota or getUserUsage call that returns (other than through
   checkQuota's catch block) has applied the limits of the tier it was
   called with, 'free' when none was given. *)
C27_TierOfTheCall ==
    \A p \in Procs :
       (pc[p] = "done" /\ resp[p].status = "returned")
          => /\ (req[p].kind = "checkQuota" /\ resp[p].quota.reason # "unable_to_verify")
                   => resp[p].quota.usage.tier = TierOrFree(req[p].tier)
             /\ req[p].kind = "getUserUsage"
                   => resp[p].report.usage.tier = req[p].tier

-----------------------------------------------------------------------------
(* what a cache entry carries to another request *)

Answered(p) == req[p].kind = "rewrite" /\ pc[p] = "done" /\ resp[p].status = "ok"

(* C28: the originalText of every successful answer of POST /api/rewrite is
   the originalText of the request it answers. *)
C28_EchoesOwnText ==
    \A p \in Procs : Answered(p) => resp[p].data.originalText = req[p].originalText

(* C29: a successful answer of POST /api/rewrite carries a model that the
   tier of the requesting user allows. *)
C29_ModelWithinTier ==
    \A p \in Procs :
       Answered(p) => resp[p].data.model \in TIER_LIMITS(req[p].authTier).modelAccess

-----------------------------------------------------------------------------
(* usage recorded and result cached *)

(* C30: a request to POST /api/rewrite never has its result cached before
   usage is recorded for it; when it has finished, usage was recorded for it
   exactly as often as its result was cached: not at all after a cache hit,
   after a denial by checkQuota or after a provider failure, and once each
   for a successful cache miss. *)
C30_RecordedIffCached ==
    \A p \in Procs :
       req[p].kind = "rewrite"
          => /\ hist[p].cacheWrites <= hist[p].recordCalls
             /\ pc[p] = "done"
                   => /\ hist[p].recordCalls = hist[p].cacheWrites
                      /\ loc[p].cacheHit
                            => hist[p].recordCalls = 0
                      /\ (hist[p].quota.called /\ ~hist[p].quota.canProceed)
                            => hist[p].recordCalls = 0
                      /\ hist[p].providerFailed > 0
                            => hist[p].recordCalls = 0
                      /\ (resp[p].status = "ok" /\ ~loc[p].cacheHit)
                            => hist[p].recordCalls = 1


====
